---- MODULE Spec2Model ----
(***************************************************************************)
(* A model of blocks (square/blocks): the collection of a directory tree   *)
(* of row-group files into column groups (_collect, _expand, _filter,      *)
(* _cgroups, _access), the assembly of the groups into one table           *)
(* (assemble, iterate, _merge_all), the inverse operation (divide) and the *)
(* staging directories the public operations run in.                       *)
(*                                                                         *)
(* A path is a sequence of one-character strings, so that the functions of *)
(* os.path, the glob patterns of the storage layer and Python's sorted()   *)
(* on strings are computed character by character, as the code does.       *)
(***************************************************************************)
EXTENDS Integers, Sequences, FiniteSets, TLC

VARIABLES
    files,      \* the storage: a sequence of [path, data], one per file
    tmpdirs,    \* the staging directories that exist
    atexit,     \* the staging directories registered for removal at exit
    alive,      \* whether the process is running
    made,       \* how many operations were called
    call,       \* the operation under way: its arguments and position
    ret,        \* what the last finished operation returned or raised
    gen,        \* the generator object of an iterate call
    yielded,    \* the items the consumer has taken from the generator
    log,        \* the storage and codec calls of the operation under way
    gcscp       \* the copy command of the process's GCSFileSystem object

vars == <<files, tmpdirs, atexit, alive, made, call, ret, gen, yielded, log, gcscp>>

(***************************************************************************)
(* Characters and strings.                                                 *)
(***************************************************************************)

\* The characters the model uses, in ascending code point order.
Alphabet ==
    << "*", ".", "/", "0", "1", "2", "3", "4", "5", "6", "7", "8", "9", ":",
       "?", "[", "_", "a", "b", "c", "d", "e", "f", "g", "h", "i", "j", "k",
       "l", "m", "n", "o", "p", "q", "r", "s", "t", "u", "v", "w", "x", "y",
       "z" >>

Chars == {Alphabet[i] : i \in 1..Len(Alphabet)}

Code == [c \in Chars |-> CHOOSE i \in 1..Len(Alphabet) : Alphabet[i] = c]

Min(a, b) == IF a <= b THEN a ELSE b

\* F of v: a value computed once and given a name.
With(v, F(_)) == F(v)

\* GCSFileSystem(parallel, quiet): the copy command the object is made with.
GCSFileSystem(parallel, quiet) ==
    <<"gsutil">> \o (IF parallel THEN <<"-m">> ELSE <<>>)
                \o (IF quiet THEN <<"-q">> ELSE <<>>) \o <<"cp">>

RECURSIVE CommonPrefix(_, _, _, _)
\* The length of the longest common prefix of a and b, which is at least
\* lo and at most hi.
CommonPrefix(a, b, lo, hi) ==
    IF lo = hi THEN lo
    ELSE LET mid == (lo + hi + 1) \div 2
         IN  IF SubSeq(a, lo + 1, mid) = SubSeq(b, lo + 1, mid)
             THEN CommonPrefix(a, b, mid, hi)
             ELSE CommonPrefix(a, b, lo, mid - 1)

\* a < b when the two strings are the same up to position `same`: the next
\* character decides, and a proper prefix comes first.
LexLess(a, b, same) ==
    IF same = Len(a) \/ same = Len(b) THEN Len(a) < Len(b)
    ELSE Code[a[same + 1]] < Code[b[same + 1]]

\* a < b for two Python strings
StrLess(a, b) == LexLess(a, b, CommonPrefix(a, b, 0, Min(Len(a), Len(b))))

\* sorted(s) for a list of strings
Sorted(s) == SortSeq(s, StrLess)

Range(s) == {s[i] : i \in DOMAIN s}

RECURSIVE Flatten(_, _, _)
\* s[lo] \o ... \o s[hi], by halves
Flatten(s, lo, hi) ==
    IF lo > hi THEN <<>>
    ELSE IF lo = hi THEN s[lo]
    ELSE IF lo + 1 = hi THEN s[lo] \o s[hi]
    ELSE LET mid == (lo + hi) \div 2
         IN  Flatten(s, lo, mid) \o Flatten(s, mid + 1, hi)

Concat(s) == Flatten(s, 1, Len(s))

\* The elements of s in the order of their first occurrence.
FirstOccurrences(s) ==
    Concat([i \in DOMAIN s |->
              IF \E j \in 1..(i - 1) : s[j] = s[i] THEN <<>> ELSE <<s[i]>>])

\* A sorted list without its repetitions: sorted(set(s)) is
\* Unique(Sorted(s)).
Unique(s) ==
    IF Cardinality(Range(s)) = Len(s) THEN s
    ELSE Concat([i \in DOMAIN s |->
                   IF i > 1 /\ s[i] = s[i - 1] THEN <<>> ELSE <<s[i]>>])

RECURSIVE SetToSortedSeq(_)
\* sorted(S) for a small set of strings
SetToSortedSeq(S) ==
    IF S = {} THEN <<>>
    ELSE LET m == CHOOSE x \in S : \A y \in S : x = y \/ StrLess(x, y)
         IN  <<m>> \o SetToSortedSeq(S \ {m})

\* list(...) of a comprehension
ListOf(f) == <<>> \o f

None == <<>>
Some(x) == <<x>>
IsNone(o) == o = <<>>
Val(o) == o[1]

(***************************************************************************)
(* os.path                                                                 *)
(***************************************************************************)

LastIndex(p, c) ==
    LET hits == {i \in DOMAIN p : p[i] = c}
    IN  IF hits = {} THEN 0 ELSE CHOOSE i \in hits : \A j \in hits : j <= i

RECURSIVE RStrip(_, _)
RStrip(p, c) ==
    IF p # <<>> /\ p[Len(p)] = c THEN RStrip(SubSeq(p, 1, Len(p) - 1), c) ELSE p

basename(p) == SubSeq(p, LastIndex(p, "/") + 1, Len(p))

dirname(p) ==
    LET head == SubSeq(p, 1, LastIndex(p, "/"))
    IN  IF head # <<>> /\ \E i \in DOMAIN head : head[i] # "/"
        THEN RStrip(head, "/")
        ELSE head

\* os.path.splitext(p)[1]: from the last dot of the last component, unless
\* that dot is one of its leading dots.
splitext_ext(p) ==
    LET sep == LastIndex(p, "/")
        dot == LastIndex(p, ".")
    IN  IF dot > sep /\ \E i \in (sep + 1)..(dot - 1) : p[i] # "."
        THEN SubSeq(p, dot, Len(p))
        ELSE <<>>

join(a, b) ==
    IF b # <<>> /\ b[1] = "/" THEN b
    ELSE IF a = <<>> \/ a[Len(a)] = "/" THEN a \o b
    ELSE a \o <<"/">> \o b

(***************************************************************************)
(* The storage: local files and the files of remote filesystems, keyed by  *)
(* their URL.  `files` keeps the entries in ascending path order, a        *)
(* canonical form of the map from path to content; a directory exists      *)
(* when a file lies under it, or when it is a live staging directory.      *)
(***************************************************************************)

Paths(fs) == ListOf([i \in DOMAIN fs |-> fs[i].path])

RECURSIVE Search(_, _, _, _)
Search(fs, p, lo, hi) ==
    IF lo > hi THEN 0
    ELSE LET mid == (lo + hi) \div 2
         IN  IF fs[mid].path = p THEN mid
             ELSE IF StrLess(fs[mid].path, p) THEN Search(fs, p, mid + 1, hi)
             ELSE Search(fs, p, lo, mid - 1)

\* The position of the file at path p, 0 when there is none; the positions
\* next to `guess` are tried first.
Find(fs, p, guess) ==
    LET near == {j \in {guess - 1, guess, guess + 1} \cap DOMAIN fs : fs[j].path = p}
    IN  IF near # {} THEN CHOOSE j \in near : TRUE ELSE Search(fs, p, 1, Len(fs))

Exists(fs, p) == Find(fs, p, 0) # 0

SortEntries(s) == SortSeq(s, LAMBDA a, b : StrLess(a.path, b.path))

\* Of several entries with one path, the last.
KeepLast(entries) ==
    Concat([i \in DOMAIN entries |->
              IF \E j \in (i + 1)..Len(entries) : entries[j].path = entries[i].path
              THEN <<>> ELSE <<entries[i]>>])

\* fs after the entries are written, in order.
WriteAll(fs, entries) ==
    LET dst == Range(Paths(entries))
        new == SortEntries(IF Cardinality(dst) = Len(entries) THEN entries
                           ELSE KeepLast(entries))
    IN  IF new = <<>> THEN fs
        ELSE With(SelectSeq(fs, LAMBDA e : e.path \notin dst), LAMBDA kept :
               IF kept = <<>> THEN new
               ELSE IF StrLess(kept[Len(kept)].path, new[1].path) THEN kept \o new
               ELSE IF StrLess(new[Len(new)].path, kept[1].path) THEN new \o kept
               ELSE SortEntries(kept \o new))

IsPrefix(a, b) == Len(a) <= Len(b) /\ SubSeq(b, 1, Len(a)) = a

Under(dir, p) == IsPrefix(RStrip(dir, "/") \o <<"/">>, p)

\* fs after the recursive removal of a directory.
RemoveTree(fs, dir) == SelectSeq(fs, LAMBDA e : ~Under(dir, e.path))

\* fsspec.core.split_protocol
split_protocol(url) ==
    LET hits == {i \in 1..(Len(url) - 2) :
                   url[i] = ":" /\ url[i + 1] = "/" /\ url[i + 2] = "/"}
        at == CHOOSE i \in hits : \A j \in hits : i <= j
    IN  IF hits # {} /\ at > 2
        THEN [protocol |-> Some(SubSeq(url, 1, at - 1)), path |-> SubSeq(url, at + 3, Len(url))]
        ELSE [protocol |-> None, path |-> url]

with_protocol(protocol, p) ==
    IF IsNone(protocol) THEN p ELSE Val(protocol) \o <<":", "/", "/">> \o p

\* fsspec.core.has_magic
has_magic(p) == \E i \in DOMAIN p : p[i] \in {"*", "?", "["}

RECURSIVE GlobMatch(_, _, _, _)
\* Whether s[j..] matches the pattern pat[i..]: "**" is any run of
\* characters, "*" any run without a "/".
GlobMatch(pat, i, s, j) ==
    IF i > Len(pat) THEN j > Len(s)
    ELSE IF pat[i] = "*"
    THEN IF i < Len(pat) /\ pat[i + 1] = "*"
         THEN \E k \in j..(Len(s) + 1) : GlobMatch(pat, i + 2, s, k)
         ELSE \E k \in j..(Len(s) + 1) :
                 /\ \A m \in j..(k - 1) : s[m] # "/"
                 /\ GlobMatch(pat, i + 1, s, k)
    ELSE j <= Len(s) /\ pat[i] = s[j] /\ GlobMatch(pat, i + 1, s, j + 1)

\* The directories above a file.
DirsOf(f) == {SubSeq(f, 1, i - 1) : i \in {j \in 2..Len(f) : f[j] = "/"}}

\* The files of one filesystem, without their protocol.
FilesOf(fs, protocol) ==
    LET all == ListOf([i \in DOMAIN fs |-> split_protocol(fs[i].path)])
        own == SelectSeq(all, LAMBDA u : u.protocol = protocol)
    IN  ListOf([i \in DOMAIN own |-> own[i].path])

DirsIn(F, live) ==
    UNION {DirsOf(F[i]) : i \in DOMAIN F} \cup live \cup UNION {DirsOf(d) : d \in live}

\* ls of a filesystem: the entries of a directory, a file itself, or
\* nothing (FileNotFoundError) for a path that does not exist.
fs_ls(F, dirs, q) ==
    LET p == IF q = <<"/">> THEN q ELSE RStrip(q, "/")
    IN  IF \E i \in DOMAIN F : F[i] = p THEN <<p>>
        ELSE SelectSeq(F, LAMBDA f : dirname(f) = p)
             \o SetToSortedSeq({d \in dirs : dirname(d) = p})

\* glob of a filesystem: the files and directories that match.
fs_glob(F, dirs, pat) ==
    SelectSeq(F, LAMBDA f : GlobMatch(pat, 1, f, 1))
    \o SetToSortedSeq({d \in dirs : GlobMatch(pat, 1, d, 1)})

\* FileSystem.ls
ls(fs, live, url) ==
    With(split_protocol(url), LAMBDA sp :
    With(FilesOf(fs, sp.protocol), LAMBDA F :
    With(DirsIn(F, IF IsNone(sp.protocol) THEN live ELSE {}), LAMBDA dirs :
    With(IF has_magic(sp.path) THEN fs_glob(F, dirs, sp.path) ELSE fs_ls(F, dirs, sp.path),
         LAMBDA output :
      Sorted([i \in DOMAIN output |-> with_protocol(sp.protocol, output[i])])))))

(***************************************************************************)
(* FileSystem (blocks/filesystem/base.py)                                  *)
(***************************************************************************)

Str(p) == [isstr |-> TRUE, v |-> p]
List(ps) == [isstr |-> FALSE, v |-> ps]

OK == "ok"

\* FileSystem._get_protocol_path for a list: the one protocol of the paths
\* and the paths without it.
_get_protocol_path(urls) ==
    LET sp == ListOf([i \in DOMAIN urls |-> split_protocol(urls[i])])
    IN  IF urls = <<>> THEN [err |-> "ValueError"]
        ELSE IF Cardinality({sp[i].protocol : i \in DOMAIN sp}) # 1
        THEN [err |-> "AssertionError"]
        ELSE [err |-> OK, protocol |-> sp[1].protocol,
              paths |-> ListOf([i \in DOMAIN sp |-> sp[i].path])]

isdir(fs, live, url) ==
    LET sp == split_protocol(url)
        F == FilesOf(fs, sp.protocol)
    IN  RStrip(sp.path, "/") \in DirsIn(F, IF IsNone(sp.protocol) THEN live ELSE {})

RECURSIVE split(_, _)
\* str.split(sep) for a separator of one character
split(p, sep) ==
    LET at == {i \in DOMAIN p : p[i] = sep}
    IN  IF at = {} THEN <<p>>
        ELSE LET i == CHOOSE x \in at : \A y \in at : x <= y
             IN  <<SubSeq(p, 1, i - 1)>> \o split(SubSeq(p, i + 1, Len(p)), sep)

\* common_prefix of the transfer: the leading components every path has,
\* joined again.
common_prefix(paths) ==
    LET parts == ListOf([i \in DOMAIN paths |-> split(paths[i], "/")])
        lmax == CHOOSE n \in {Len(parts[i]) : i \in DOMAIN parts} :
                   \A i \in DOMAIN parts : n <= Len(parts[i])
        same == {k \in 0..lmax : \A j \in 1..k : \A i \in DOMAIN parts :
                                     parts[i][j] = parts[1][j]}
        n == CHOOSE k \in same : \A h \in same : h <= k
    IN  IF n = 0 THEN <<>>
        ELSE SubSeq(paths[1], 1, Len(Concat(SubSeq(parts[1], 1, n))) + n - 1)

\* Where a transfer puts each source: the destinations given one by one;
\* for several sources and one destination the tree of the sources below
\* what they have in common, rebuilt below the destination; for a single
\* source the destination itself, or a file of its name in a directory.
other_paths(fs, live, srcs, dest) ==
    IF ~dest.isstr THEN dest.v
    ELSE IF Len(srcs) > 1
    THEN With(Len(common_prefix(srcs)), LAMBDA cp :
           ListOf([i \in DOMAIN srcs |->
                     RStrip(dest.v, "/") \o SubSeq(srcs[i], cp + 1, Len(srcs[i]))]))
    ELSE IF dest.v[Len(dest.v)] = "/" \/ isdir(fs, live, dest.v)
    THEN <<join(RStrip(dest.v, "/"), basename(srcs[1]))>>
    ELSE <<dest.v>>

\* One transfer of the storage layer (fs.copy, fs.put, fs.get): every
\* source is read and written to its destination.
transfer(fs, live, srcs, dest) ==
    LET first == IF srcs = <<>> THEN 0 ELSE Find(fs, srcs[1], 1)
        at == ListOf([i \in DOMAIN srcs |-> Find(fs, srcs[i], first + i - 1)])
        to == other_paths(fs, live, srcs, dest)
    IN  IF \E i \in DOMAIN at : at[i] = 0 THEN [err |-> "FileNotFoundError", fs |-> fs]
        ELSE [err |-> OK,
              fs |-> WriteAll(fs, ListOf([i \in DOMAIN srcs |->
                                            [path |-> to[i], data |-> fs[at[i]].data]]))]

\* FileSystem.copy with recursive=False.  st is [fs, err, log]; each
\* branch of the method runs when its own condition holds.
copy_same(st, live, ps, pd, srcs, dest) ==
    IF st.err # OK \/ ps # pd THEN st
    ELSE With(transfer(st.fs, live, srcs, dest), LAMBDA t :
           [fs |-> t.fs, err |-> t.err,
            log |-> Append(st.log, [op |-> "fs.copy", n |-> Len(srcs)])])

copy_put(st, live, ps, pd, srcs, dest) ==
    IF st.err # OK \/ ~IsNone(ps) THEN st
    ELSE With(transfer(st.fs, live, srcs, dest), LAMBDA t :
           [fs |-> t.fs, err |-> t.err,
            log |-> Append(st.log, [op |-> "fs.put", n |-> Len(srcs)])])

copy_get(st, live, ps, pd, srcs, dest) ==
    IF st.err # OK \/ ~IsNone(pd) THEN st
    ELSE With(transfer(st.fs, live, srcs, dest), LAMBDA t :
           [fs |-> t.fs, err |-> t.err,
            log |-> Append(st.log, [op |-> "fs.get", n |-> Len(srcs)])])

\* if pd == "gs": fs.invalidate_cache(dest), fs being the filesystem of
\* the branch that ran; no branch has run, and fs is unbound, when the
\* two protocols differ and neither is local.
copy_invalidate(st, ps, pd) ==
    IF st.err = OK /\ pd = Some(<<"g", "s">>) /\ ~IsNone(ps) /\ ps # pd
    THEN [st EXCEPT !.err = "UnboundLocalError"]
    ELSE st

copy_raise(st, ps, pd) ==
    IF st.err = OK /\ ~IsNone(pd) /\ ~IsNone(ps)
    THEN [st EXCEPT !.err = "NotImplementedError"]
    ELSE st

copy(fs, live, sources, dest) ==
    LET srcs == IF sources.isstr THEN <<sources.v>> ELSE sources.v
        st0 == [fs |-> fs, err |-> OK, log |-> <<[op |-> "copy", n |-> Len(srcs)]>>]
    IN  With(_get_protocol_path(srcs), LAMBDA s :
        With(_get_protocol_path(IF dest.isstr THEN <<dest.v>> ELSE dest.v), LAMBDA d :
          IF s.err # OK THEN [st0 EXCEPT !.err = s.err]
          ELSE IF d.err # OK THEN [st0 EXCEPT !.err = d.err]
          ELSE With(copy_same(st0, live, s.protocol, d.protocol, srcs, dest), LAMBDA st1 :
               With(copy_put(st1, live, s.protocol, d.protocol, srcs, dest), LAMBDA st2 :
               With(copy_get(st2, live, s.protocol, d.protocol, srcs, dest), LAMBDA st3 :
                 copy_raise(copy_invalidate(st3, s.protocol, d.protocol),
                            s.protocol, d.protocol))))))

(***************************************************************************)
(* The path classifier and the collector (blocks/core.py)                  *)
(***************************************************************************)

_has_ext(path) == splitext_ext(path) # <<>>

_cname(path) == basename(dirname(path))

_rname(path) == basename(path)

In(x, list) == \E i \in DOMAIN list : list[i] = x

\* An expansion whose result is filtered but neither sorted nor freed of
\* paths that occur twice.
_expand_as_listed(paths, fs, live) ==
    SelectSeq(Concat([i \in DOMAIN paths |->
                        IF _has_ext(paths[i]) THEN <<paths[i]>>
                        ELSE ls(fs, live, paths[i] \o <<"*", "*">>)]), _has_ext)

\* For any directories in paths, expand into all the contained files.
_expand(paths, fs, live) ==
    LET expanded == IF \A i \in DOMAIN paths : _has_ext(paths[i]) THEN paths
                    ELSE Concat([i \in DOMAIN paths |->
                                   IF _has_ext(paths[i]) THEN <<paths[i]>>
                                   ELSE ls(fs, live, paths[i] \o <<"*", "*">>)])
    IN  Unique(Sorted(SelectSeq(expanded, _has_ext)))

\* A filter that keeps a path when either of its names is wanted.
_filter_either(paths, cgroups, rgroups) ==
    SelectSeq(paths, LAMBDA path :
        \/ IsNone(cgroups) \/ In(_cname(path), Val(cgroups))
        \/ IsNone(rgroups) \/ In(_rname(path), Val(rgroups)))

\* Keep only paths with the appropriate cgroups and/or rgroups.
_filter(paths, cgroups, rgroups) ==
    SelectSeq(paths, LAMBDA path :
        /\ IsNone(cgroups) \/ In(_cname(path), Val(cgroups))
        /\ IsNone(rgroups) \/ In(_rname(path), Val(rgroups)))

RECURSIVE OrderByFirst(_, _)
\* The keys in the order in which each first occurs in names.
OrderByFirst(keys, names) ==
    IF keys = {} THEN <<>>
    ELSE LET first(k) == CHOOSE i \in DOMAIN names :
                            names[i] = k /\ \A j \in 1..(i - 1) : names[j] # k
             k0 == CHOOSE k \in keys : \A k2 \in keys : first(k) <= first(k2)
         IN  <<k0>> \o OrderByFirst(keys \ {k0}, names)

\* Group paths by cgroup (the parent folder): a dict in insertion order,
\* as the sequence of its items.
_cgroups(paths) ==
    LET names == ListOf([i \in DOMAIN paths |-> _cname(paths[i])])
        keys == OrderByFirst(Range(names), names)
    IN  ListOf([k \in DOMAIN keys |->
           [name |-> keys[k],
            paths |-> SelectSeq(paths, LAMBDA path : _cname(path) = keys[k])]])

Keys(dict) == ListOf([i \in DOMAIN dict |-> dict[i].name])

HasKey(dict, k) == \E i \in DOMAIN dict : dict[i].name = k

Get(dict, k) == dict[CHOOSE i \in DOMAIN dict : dict[i].name = k].paths

RECURSIVE _access_from(_, _, _, _, _)
\* The loop of _access from the i-th cgroup on; st is [fs, err, log] and
\* updated the dict built so far.
_access_from(cgroups, i, st, updated, env) ==
    IF i > Len(cgroups) \/ st.err # OK
    THEN [fs |-> st.fs, err |-> st.err, log |-> st.log, updated |-> updated]
    ELSE LET paths == cgroups[i].paths
             tmp_cgroup == join(join(env.tmpdir, cgroups[i].name), <<>>)
         IN  With(_get_protocol_path(paths), LAMBDA pp :
               IF pp.err # OK
               THEN [fs |-> st.fs, err |-> pp.err, log |-> st.log, updated |-> updated]
               ELSE IF IsNone(pp.protocol)
               THEN _access_from(cgroups, i + 1, st,
                                 Append(updated, [name |-> cgroups[i].name, paths |-> paths]),
                                 env)
               ELSE With(copy(st.fs, env.live, List(paths), Str(tmp_cgroup)), LAMBDA c :
                      _access_from(cgroups, i + 1,
                                   [fs |-> c.fs, err |-> c.err, log |-> st.log \o c.log],
                                   IF c.err = OK
                                   THEN Append(updated,
                                               [name |-> cgroups[i].name,
                                                paths |-> ls(c.fs, env.live, tmp_cgroup)])
                                   ELSE updated,
                                   env)))

\* Access potentially cloud stored files, preserving cgroups.
_access(cgroups, fs, live, tmpdir) ==
    _access_from(cgroups, 1, [fs |-> fs, err |-> OK, log |-> <<>>], <<>>,
                 [live |-> live, tmpdir |-> tmpdir])

\* accessed[k] for a defaultdict(list)
Lookup_defaultdict(accessed, k) ==
    IF HasKey(accessed, k) THEN [err |-> OK, paths |-> Get(accessed, k)]
    ELSE [err |-> OK, paths |-> <<>>]

\* accessed[k] for a plain dict
Lookup(accessed, k) ==
    IF HasKey(accessed, k) THEN [err |-> OK, paths |-> Get(accessed, k)]
    ELSE [err |-> "KeyError", paths |-> <<>>]

\* The dict as _access left it, whatever the order asked for.
_ordered_as_accessed(accessed, cgroups) ==
    [err |-> IF \A i \in DOMAIN cgroups : HasKey(accessed, cgroups[i])
             THEN OK ELSE "KeyError",
     grouped |-> SelectSeq(accessed, LAMBDA item : In(item.name, cgroups))]

\* OrderedDict((k, accessed[k]) for k in cgroups): a key given twice keeps
\* its first place.
_ordered(accessed, cgroups) ==
    LET got == ListOf([i \in DOMAIN cgroups |-> Lookup(accessed, cgroups[i])])
        ks == FirstOccurrences(cgroups)
    IN  IF \E i \in DOMAIN got : got[i].err # OK
        THEN [err |-> "KeyError", grouped |-> <<>>]
        ELSE [err |-> OK,
              grouped |-> ListOf([i \in DOMAIN ks |->
                             [name |-> ks[i], paths |-> Lookup(accessed, ks[i]).paths]])]

\* Collect paths into cgroups and download any gcs files for local access.
_collect(path, cgroups, rgroups, fs, live, tmpdir) ==
    With(ls(fs, live, path), LAMBDA paths :
      LET listed == <<[op |-> "ls", n |-> Len(paths)]>>
      IN  IF paths = <<>>
          THEN [err |-> "ValueError", grouped |-> <<>>, fs |-> fs, log |-> listed]
          ELSE With(_cgroups(_filter(_expand(paths, fs, live), cgroups, rgroups)),
                    LAMBDA grouped :
               With(_access(grouped, fs, live, tmpdir), LAMBDA accessed :
                 IF accessed.err # OK
                 THEN [err |-> accessed.err, grouped |-> <<>>, fs |-> accessed.fs,
                       log |-> listed \o accessed.log]
                 ELSE With(_ordered(accessed.updated,
                                    IF IsNone(cgroups) THEN Sorted(Keys(grouped))
                                    ELSE Val(cgroups)),
                           LAMBDA out :
                        [err |-> out.err, grouped |-> out.grouped, fs |-> accessed.fs,
                         log |-> listed \o accessed.log]))))

(***************************************************************************)
(* Tables: a table is [cols, rows], the column names in order and the rows *)
(* in order, each row holding one value per column.  The row index is not  *)
(* kept: divide resets it and the readers make a new one.                  *)
(***************************************************************************)

NaN == 0 - 1

Pos(cols, c) == CHOOSE i \in DOMAIN cols : cols[i] = c

\* The extensions blocks.dfio has a reader and a writer for.
Extensions ==
    { <<".", "p", "q">>, <<".", "c", "s", "v">>, <<".", "p", "k", "l">>,
      <<".", "j", "s", "o", "n">> }

\* read_df: the table stored at a path.
read_df(fs, path, guess) ==
    IF splitext_ext(path) \notin Extensions THEN [err |-> "KeyError"]
    ELSE LET at == Find(fs, path, guess)
         IN  IF at = 0 THEN [err |-> "FileNotFoundError"]
             ELSE [err |-> OK, df |-> fs[at].data]

\* pd.concat of tables, row-wise: the union of the columns in the order
\* of their first occurrence, a missing value where a table lacks one.
pd_concat(dfs) ==
    IF Cardinality({dfs[i].cols : i \in DOMAIN dfs}) = 1
    THEN [cols |-> dfs[1].cols, rows |-> Concat([i \in DOMAIN dfs |-> dfs[i].rows])]
    ELSE LET cols == FirstOccurrences(Concat([i \in DOMAIN dfs |-> dfs[i].cols]))
             widen(df) == [r \in DOMAIN df.rows |->
                             [c \in DOMAIN cols |->
                                IF In(cols[c], df.cols)
                                THEN df.rows[r][Pos(df.cols, cols[c])] ELSE NaN]]
         IN  [cols |-> cols, rows |-> Concat([i \in DOMAIN dfs |-> widen(dfs[i])])]

JoinModes == {"inner", "left", "right", "outer"}

RECURSIVE TupleLess(_, _, _)
TupleLess(a, b, i) ==
    IF i > Len(a) THEN FALSE
    ELSE IF a[i] = b[i] THEN TupleLess(a, b, i + 1)
    ELSE a[i] < b[i]

\* pd.merge(df1, df2, how=merge): the join on the columns the two tables
\* share.  The columns are those of df1, then the other columns of df2.
pd_merge(df1, df2, merge) ==
    LET on == SelectSeq(df1.cols, LAMBDA c : In(c, df2.cols))
        cols == df1.cols \o SelectSeq(df2.cols, LAMBDA c : ~In(c, df1.cols))
        key(df, row) == [i \in DOMAIN on |-> row[Pos(df.cols, on[i])]]
        match(l, r) == key(df1, df1.rows[l]) = key(df2, df2.rows[r])
        \* the joined row of left row l and right row r, 0 for none
        row(l, r) ==
            [c \in DOMAIN cols |->
               IF In(cols[c], df1.cols) /\ l # 0 THEN df1.rows[l][Pos(df1.cols, cols[c])]
               ELSE IF In(cols[c], df2.cols) /\ r # 0
               THEN df2.rows[r][Pos(df2.cols, cols[c])]
               ELSE NaN]
        rowkey(rw) == [i \in DOMAIN on |-> rw[Pos(cols, on[i])]]
        L == DOMAIN df1.rows
        R == DOMAIN df2.rows
        pairs(l) == Concat([r \in R |-> IF match(l, r) THEN <<row(l, r)>> ELSE <<>>])
        inner == Concat([l \in L |-> pairs(l)])
        left == Concat([l \in L |-> IF pairs(l) = <<>> THEN <<row(l, 0)>> ELSE pairs(l)])
        sriap(r) == Concat([l \in L |-> IF match(l, r) THEN <<row(l, r)>> ELSE <<>>])
        right == Concat([r \in R |-> IF sriap(r) = <<>> THEN <<row(0, r)>> ELSE sriap(r)])
        rest == Concat([r \in R |-> IF sriap(r) = <<>> THEN <<row(0, r)>> ELSE <<>>])
        outer == SortSeq(left \o rest,
                         LAMBDA a, b : TupleLess(rowkey(a), rowkey(b), 1))
    IN  IF merge \notin JoinModes \/ on = <<>> THEN [err |-> "MergeError"]
        ELSE [err |-> OK,
              df |-> [cols |-> cols,
                      rows |-> CASE merge = "inner" -> inner
                                 [] merge = "left" -> left
                                 [] merge = "right" -> right
                                 [] merge = "outer" -> outer]]

\* A merge that gives up where it warns.
_safe_merge_or_stop(st, df2, merge) ==
    IF Len(st.df.rows) # Len(df2.rows)
    THEN [err |-> "UserWarning", df |-> st.df,
          warnings |-> Append(st.warnings, <<Len(st.df.rows), Len(df2.rows)>>)]
    ELSE With(pd_merge(st.df, df2, merge), LAMBDA m :
           IF m.err # OK THEN [err |-> m.err, df |-> st.df, warnings |-> st.warnings]
           ELSE [err |-> OK, df |-> m.df, warnings |-> st.warnings])

\* Merge two dataframes, warning of any shape differences.  st is
\* [err, df, warnings].
_safe_merge(st, df2, merge) ==
    LET w == IF Len(st.df.rows) # Len(df2.rows)
             THEN Append(st.warnings, <<Len(st.df.rows), Len(df2.rows)>>)
             ELSE st.warnings
    IN  With(pd_merge(st.df, df2, merge), LAMBDA m :
          IF m.err # OK THEN [err |-> m.err, df |-> st.df, warnings |-> w]
          ELSE [err |-> OK, df |-> m.df, warnings |-> w])

RECURSIVE _merge_from(_, _, _, _)
_merge_from(frames, i, st, merge) ==
    IF i > Len(frames) \/ st.err # OK THEN st
    ELSE _merge_from(frames, i + 1, _safe_merge(st, frames[i], merge), merge)

\* The merge taken from the last frame to the first.
_merge_all_backwards(frames, merge) ==
    IF frames = <<>> THEN [err |-> "IndexError", warnings |-> <<>>]
    ELSE _merge_from(ListOf([i \in DOMAIN frames |-> frames[Len(frames) + 1 - i]]), 2,
                     [err |-> OK, df |-> frames[Len(frames)], warnings |-> <<>>], merge)

\* Merge a list of dataframes with safe merge.
_merge_all(frames, merge) ==
    IF frames = <<>> THEN [err |-> "IndexError", warnings |-> <<>>]
    ELSE _merge_from(frames, 2, [err |-> OK, df |-> frames[1], warnings |-> <<>>], merge)

\* pd.concat(read_df(f) for f in files) for one cgroup
read_cgroup(fs, paths) ==
    With(ListOf([i \in DOMAIN paths |-> read_df(fs, paths[i], i)]), LAMBDA got :
      LET bad == {i \in DOMAIN got : got[i].err # OK}
      IN  IF bad # {} THEN [err |-> got[CHOOSE i \in bad : \A j \in bad : i <= j].err]
          ELSE [err |-> OK, df |-> pd_concat(ListOf([i \in DOMAIN got |-> got[i].df]))])

\* The body of assemble, run with its staging directory.  a holds the
\* arguments.
assemble(a, fs, live, tmpdir) ==
    With(_collect(a.path, a.cgroups, a.rgroups, fs, live, tmpdir), LAMBDA c :
      IF c.err # OK THEN [err |-> c.err, fs |-> c.fs, log |-> c.log]
      ELSE With(ListOf([g \in DOMAIN c.grouped |-> read_cgroup(c.fs, c.grouped[g].paths)]),
                LAMBDA frames :
             LET bad == {g \in DOMAIN frames : frames[g].err # OK}
             IN  IF bad # {}
                 THEN [err |-> frames[CHOOSE g \in bad : \A h \in bad : g <= h].err,
                       fs |-> c.fs, log |-> c.log]
                 ELSE With(_merge_all(ListOf([g \in DOMAIN frames |-> frames[g].df]), a.merge),
                           LAMBDA m :
                        IF m.err # OK THEN [err |-> m.err, fs |-> c.fs, log |-> c.log]
                        ELSE [err |-> OK, df |-> m.df, warnings |-> m.warnings,
                              fs |-> c.fs, log |-> c.log])))

(***************************************************************************)
(* The divider (blocks/core.py)                                            *)
(***************************************************************************)

DigitChar == <<"0", "1", "2", "3", "4", "5", "6", "7", "8", "9">>

RECURSIVE Digits(_)
\* The decimal digits of a natural number.
Digits(n) ==
    IF n < 10 THEN <<DigitChar[n + 1]>>
    ELSE Digits(n \div 10) \o <<DigitChar[(n % 10) + 1]>>

RECURSIVE ZeroPad(_, _)
ZeroPad(s, w) == IF Len(s) >= w THEN s ELSE ZeroPad(<<"0">> \o s, w)

PadWidth == 5

\* The names counted from 0 whatever the offset.
rname_of_from_zero(i, rgroup_offset, extension, prefix) ==
    LET rn == <<"p", "a", "r", "t", "_">> \o ZeroPad(Digits(i), PadWidth) \o extension
    IN  IF IsNone(prefix) THEN rn ELSE Val(prefix) \o <<"_">> \o rn

\* "part_{:05d}{}".format(i + rgroup_offset, extension), with the prefix
rname_of(i, rgroup_offset, extension, prefix) ==
    LET rn == <<"p", "a", "r", "t", "_">> \o ZeroPad(Digits(i + rgroup_offset), PadWidth)
              \o extension
    IN  IF IsNone(prefix) THEN rn ELSE Val(prefix) \o <<"_">> \o rn

\* df[columns]
select(df, columns) ==
    [cols |-> columns,
     rows |-> ListOf([r \in DOMAIN df.rows |->
                      [c \in DOMAIN columns |-> df.rows[r][Pos(df.cols, columns[c])]]])]

\* A split into shards of ceil(len(df) / n) rows, the last ones shorter.
array_split_chunks(df, n, i) ==
    LET each == (Len(df.rows) + n - 1) \div n
        start == Min(i * each, Len(df.rows))
    IN  [cols |-> df.cols,
         rows |-> SubSeq(df.rows, start + 1, Min(start + each, Len(df.rows)))]

\* np.array_split(df, n)[i], i from 0: contiguous shards, the first
\* len(df) % n of them one row longer.
array_split(df, n, i) ==
    LET each == Len(df.rows) \div n
        extras == Len(df.rows) % n
        start == i * each + Min(i, extras)
        size == each + (IF i < extras THEN 1 ELSE 0)
    IN  [cols |-> df.cols, rows |-> SubSeq(df.rows, start + 1, start + size)]

\* The files one cgroup of divide stages: where each is written, where it
\* is to be copied and the shard it holds.  a holds the arguments of divide.
divide_cgroup(a, extension, tmpdir, item) ==
    LET cgroup == select(a.df, item.columns)
        rn(i) == rname_of(i, a.rgroup_offset, extension, a.prefix)
        f(i) == IF IsNone(item.cname) \/ item.cname = Some(<<>>) THEN rn(i)
                ELSE join(Val(item.cname), rn(i))
    IN  [i \in 1..a.n_rgroup |->
           [tmp |-> join(tmpdir, f(i - 1)),
            dest |-> join(a.path, f(i - 1)),
            data |-> array_split(cgroup, a.n_rgroup, i - 1)]]

\* A divide that copies what it has written, also when a write has raised.
copy_staged_written(all, done, why, staged, live) ==
    With(copy(staged, live, List([i \in 1..done |-> all[i].tmp]),
              List([i \in 1..done |-> all[i].dest])), LAMBDA c :
      [err |-> IF done < Len(all) THEN why ELSE c.err, fs |-> c.fs,
       log |-> <<[op |-> "write_df", n |-> done]>> \o c.log])

\* The end of divide: every staged file is copied to its destination in
\* one call, which is not reached when a write has raised.
copy_staged(all, done, why, staged, live) ==
    IF done < Len(all)
    THEN [err |-> why, fs |-> staged, log |-> <<[op |-> "write_df", n |-> done]>>]
    ELSE With(copy(staged, live, List(ListOf([i \in DOMAIN all |-> all[i].tmp])),
                   List(ListOf([i \in DOMAIN all |-> all[i].dest]))), LAMBDA c :
           [err |-> c.err, fs |-> c.fs,
            log |-> <<[op |-> "write_df", n |-> done]>> \o c.log])

\* The body of divide, run with its staging directory.  a holds the
\* arguments; the a.failing-th call of write_df raises (0: none does).
divide(a, fs, live, tmpdir) ==
    LET items == IF IsNone(a.cgroup_columns)
                 THEN <<[cname |-> None, columns |-> a.df.cols]>>
                 ELSE Val(a.cgroup_columns)
        ext == IF a.extension[1] # "." THEN <<".">> \o a.extension ELSE a.extension
        n == IF a.n_rgroup < 1 THEN 1 ELSE a.n_rgroup
        lacks == {k \in DOMAIN items : \E c \in DOMAIN items[k].columns :
                                          ~In(items[k].columns[c], a.df.cols)}
        first == IF lacks = {} THEN 0 ELSE CHOOSE k \in lacks : \A h \in lacks : k <= h
        \* the call of write_df that does not return: 0 when each does
        early == IF a.n_rgroup < 1 THEN 1
                 ELSE IF first # 0 THEN (first - 1) * n + 1 ELSE 0
        codec == IF ext \notin Extensions THEN 1 ELSE a.failing
        bad == IF early = 0 THEN codec
               ELSE IF codec = 0 THEN early ELSE Min(early, codec)
        why == IF bad = early /\ early # 0
               THEN (IF a.n_rgroup < 1 THEN "ValueError" ELSE "KeyError")
               ELSE IF ext \notin Extensions THEN "KeyError" ELSE "CodecError"
        \* the cgroups the loop reaches; the one it fails in selects nothing
        reached == [k \in 1..(IF a.n_rgroup < 1 THEN 1
                               ELSE IF first = 0 THEN Len(items) ELSE first) |->
                      IF k = first \/ a.n_rgroup < 1
                      THEN [items[k] EXCEPT !.columns = <<>>] ELSE items[k]]
    IN  With(ListOf(Concat([k \in DOMAIN reached |->
                 divide_cgroup([a EXCEPT !.n_rgroup = n], ext, tmpdir, reached[k])])),
             LAMBDA all :
          LET done == IF bad = 0 \/ bad > Len(all) THEN Len(all) ELSE bad - 1
          IN  copy_staged(all, done, why,
                          WriteAll(fs, ListOf([i \in 1..done |->
                                                 [path |-> all[i].tmp, data |-> all[i].data]])),
                          live))

\* The body of place, run with its staging directory.
place(a, fs, live, tmpdir) ==
    LET tmp == join(tmpdir, basename(a.path))
    IN  IF splitext_ext(a.path) \notin Extensions
        THEN [err |-> "KeyError", fs |-> fs, log |-> <<>>]
        ELSE With(copy(WriteAll(fs, <<[path |-> tmp, data |-> a.df]>>), live,
                       Str(tmp), Str(a.path)), LAMBDA c :
               [err |-> c.err, fs |-> c.fs,
                log |-> <<[op |-> "write_df", n |-> 1]>> \o c.log])

(***************************************************************************)
(* iterate (blocks/core.py): a generator.  Its body runs when the consumer *)
(* asks for an item, from the call or the last yield to the next yield.    *)
(***************************************************************************)

\* reduce(lambda a, b: set(a) & set(b), rgroups): of one list the list
\* itself, of several the set of the names they share.
_shared_rgroups(grouped) ==
    LET rgroups == ListOf([g \in DOMAIN grouped |->
                      [i \in DOMAIN grouped[g].paths |-> _rname(grouped[g].paths[i])]])
    IN  IF grouped = <<>> THEN [err |-> "TypeError"]
        ELSE IF Len(grouped) = 1 THEN [err |-> OK, isset |-> FALSE, v |-> rgroups[1]]
        ELSE [err |-> OK, isset |-> TRUE,
              v |-> {x \in Range(rgroups[1]) :
                       \A g \in DOMAIN rgroups : x \in Range(rgroups[g])}]

\* sorted() of what _shared_rgroups returns
sorted(shared) == IF shared.isset THEN SetToSortedSeq(shared.v) ELSE Sorted(shared.v)

\* The units of an iteration, in the order in which they are yielded.
units_of(axis, grouped) ==
    LET shared == _shared_rgroups(grouped)
    IN  IF axis = 0 - 1
        THEN [err |-> OK,
              units |-> Concat([g \in DOMAIN grouped |->
                                  [i \in DOMAIN grouped[g].paths |->
                                     <<_cname(grouped[g].paths[i]), grouped[g].paths[i]>>]])]
        ELSE IF axis = 0
        THEN IF shared.err # OK THEN [err |-> shared.err, units |-> <<>>]
             ELSE [err |-> OK, units |-> sorted(shared)]
        ELSE IF axis = 1
        THEN [err |-> OK, units |-> Keys(grouped)]
        ELSE [err |-> "ValueError", units |-> <<>>]

\* next(d for d in paths if _rname(d) == rgroup)
first_named(paths, rgroup) ==
    LET hits == {i \in DOMAIN paths : _rname(paths[i]) = rgroup}
    IN  paths[CHOOSE i \in hits : \A j \in hits : i <= j]

\* The tables of one row group, one per cgroup, merged.
merged(grouped, rgroup, merge, fs) ==
    With(ListOf([g \in DOMAIN grouped |->
            read_df(fs, first_named(grouped[g].paths, rgroup), 0)]), LAMBDA got :
      LET bad == {g \in DOMAIN got : got[g].err # OK}
      IN  IF bad # {} THEN [err |-> got[CHOOSE g \in bad : \A h \in bad : g <= h].err]
          ELSE _merge_all(ListOf([g \in DOMAIN got |-> got[g].df]), merge))

\* What iterate yields for one unit: the names and the table.
yield_of(a, grouped, unit, fs) ==
    With(IF a.axis = 0 - 1 THEN read_df(fs, unit[2], 0)
         ELSE IF a.axis = 0 THEN merged(grouped, unit, a.merge, fs)
         ELSE read_cgroup(fs, Get(grouped, unit)), LAMBDA r :
      IF r.err # OK THEN [err |-> r.err]
      ELSE IF a.axis = 0 - 1
      THEN [err |-> OK, item |-> <<unit[1], _rname(unit[2]), r.df>>]
      ELSE [err |-> OK, item |-> <<unit, r.df>>])

\* Every file of the Grouping read at each step.
reads_of_everything(a, grouped, unit, fs) ==
    ListOf(Concat([g \in DOMAIN grouped |->
                     [i \in DOMAIN grouped[g].paths |->
                        [op |-> "read_df", path |-> grouped[g].paths[i]]]]))

\* The read_df calls iterate makes for one unit, in their order, as far as
\* the first that raises.
reads_of(a, grouped, unit, fs) ==
    LET asked == IF a.axis = 0 - 1 THEN <<unit[2]>>
                 ELSE IF a.axis = 0
                 THEN ListOf([g \in DOMAIN grouped |->
                                first_named(grouped[g].paths, unit)])
                 ELSE Get(grouped, unit)
        bad == {i \in DOMAIN asked : read_df(fs, asked[i], 0).err # OK}
        last == IF bad = {} THEN Len(asked) ELSE CHOOSE i \in bad : \A j \in bad : i <= j
    IN  ListOf([i \in 1..last |-> [op |-> "read_df", path |-> asked[i]]])

\* The body of partitioned, run with its staging directory: the row groups
\* in the order in which the blocks are built.  Iterating over a set
\* takes its elements in any order.
partitioned(a, fs, live, tmpdir) ==
    IF ~a.dask THEN [err |-> "ImportError", fs |-> fs, log |-> <<>>, blocks |-> {}]
    ELSE With(_collect(a.path, a.cgroups, a.rgroups, fs, live, tmpdir), LAMBDA c :
           IF c.err # OK THEN [err |-> c.err, fs |-> c.fs, log |-> c.log, blocks |-> {}]
           ELSE With(_shared_rgroups(c.grouped), LAMBDA shared :
                  LET n == Cardinality(shared.v)
                  IN  IF shared.err # OK
                      THEN [err |-> shared.err, fs |-> c.fs, log |-> c.log, blocks |-> {}]
                      ELSE [err |-> OK, fs |-> c.fs, log |-> c.log, grouped |-> c.grouped,
                            blocks |-> IF shared.isset
                                       THEN {o \in [1..n -> shared.v] :
                                               \A i, j \in 1..n : o[i] = o[j] => i = j}
                                       ELSE {shared.v}]))

(***************************************************************************)
(* The operations as steps: the decorators of blocks/utils.py around the   *)
(* bodies above, the consumer of a generator, and the end of the process.  *)
(***************************************************************************)

MaxCalls == 1
MaxIterCalls == 2

Idle == [pc |-> "idle"]
NoReturn == [op |-> "none"]
NoGen == [st |-> "none"]

FunctionOps == {"assemble", "iterate", "divide", "place"}
SessionOps == {"partitioned"}

\* The names tempfile.mkdtemp may give a directory.
TmpNames == {<<"/", "t", "1">>, <<"/", "t", "2">>}

DirExists(fs, live, d) == d \in live \/ \E i \in DOMAIN fs : Under(d, fs[i].path)

\* tempfile.mkdtemp: any name under which nothing exists
mkdtemp(fs, live) == {t \in TmpNames : ~DirExists(fs, live, t)}

\* A cleanup that leaves the files where they are.
cleanup_nothing(fs, dirs) == fs

\* TemporaryDirectory.cleanup for each of dirs
cleanup(fs, dirs) == SelectSeq(fs, LAMBDA e : \A d \in dirs : ~Under(d, e.path))

\* with_function_tmpdir, up to the call of the wrapped function
EnterFunction(args, max) ==
    /\ alive /\ call.pc = "idle" /\ made < max
    /\ \E op \in FunctionOps \cap DOMAIN args : \E a \in args[op] :
         \E t \in mkdtemp(files, tmpdirs) :
           /\ op = "iterate" => gen.st \notin {"created", "suspended"}
           /\ call' = [pc |-> "body", op |-> op, a |-> a, tmpdir |-> t]
           /\ tmpdirs' = tmpdirs \cup {t}
    /\ made' = made + 1
    /\ log' = <<>>
    /\ UNCHANGED <<files, atexit, alive, ret, gen, yielded, gcscp>>

\* with_session_tmpdir, up to the call of the wrapped function
EnterSession(args, max) ==
    /\ alive /\ call.pc = "idle" /\ made < max
    /\ \E op \in SessionOps \cap DOMAIN args : \E a \in args[op] :
         \E t \in mkdtemp(files, tmpdirs) :
           /\ call' = [pc |-> "body", op |-> op, a |-> a, tmpdir |-> t]
           /\ tmpdirs' = tmpdirs \cup {t}
           /\ atexit' = atexit \cup {t}
    /\ made' = made + 1
    /\ log' = <<>>
    /\ UNCHANGED <<files, alive, ret, gen, yielded, gcscp>>

\* The end of a body: what it returned or raised, and the storage it left.
Finish(r, value) ==
    /\ files' = r.fs
    /\ log' = r.log
    /\ call' = [pc |-> "exit", op |-> call.op, a |-> call.a, tmpdir |-> call.tmpdir,
                err |-> r.err, value |-> value]
    /\ UNCHANGED <<tmpdirs, atexit, alive, made, ret, gcscp>>

BodyAssemble ==
    /\ call.pc = "body" /\ call.op = "assemble"
    /\ With(assemble(call.a, files, tmpdirs, call.tmpdir), LAMBDA r :
         Finish(r, IF r.err = OK THEN [df |-> r.df, warnings |-> r.warnings] ELSE None))
    /\ UNCHANGED <<gen, yielded>>

BodyDivide ==
    /\ call.pc = "body" /\ call.op = "divide"
    /\ Finish(divide(call.a, files, tmpdirs, call.tmpdir), None)
    /\ UNCHANGED <<gen, yielded>>

BodyPlace ==
    /\ call.pc = "body" /\ call.op = "place"
    /\ Finish(place(call.a, files, tmpdirs, call.tmpdir), None)
    /\ UNCHANGED <<gen, yielded>>

BodyPartitioned ==
    /\ call.pc = "body" /\ call.op = "partitioned"
    /\ With(partitioned(call.a, files, tmpdirs, call.tmpdir), LAMBDA r :
         IF r.err # OK THEN Finish(r, None)
         ELSE \E blocks \in r.blocks :
                Finish(r, [grouped |-> r.grouped, blocks |-> blocks]))
    /\ UNCHANGED <<gen, yielded>>

\* Calling a generator function makes the generator and runs none of its
\* body; the caller has the generator once the decorator has returned.
BodyIterate ==
    /\ call.pc = "body" /\ call.op = "iterate"
    /\ gen' = [st |-> "made", a |-> call.a, tmpdir |-> call.tmpdir,
               grouped |-> <<>>, units |-> <<>>, k |-> 0, err |-> OK, log |-> <<>>]
    /\ yielded' = <<>>
    /\ Finish([err |-> OK, fs |-> files, log |-> log], "generator")

\* with_function_tmpdir, from the return or the exception of the wrapped
\* function: the with block removes the directory.
ExitFunction ==
    /\ call.pc = "exit" /\ call.op \in FunctionOps
    /\ files' = cleanup(files, {call.tmpdir})
    /\ tmpdirs' = tmpdirs \ {call.tmpdir}
    /\ ret' = [op |-> call.op, a |-> call.a, tmpdir |-> call.tmpdir,
               err |-> call.err, value |-> call.value]
    /\ gen' = IF call.op = "iterate" THEN [gen EXCEPT !.st = "created"] ELSE gen
    /\ call' = Idle
    /\ UNCHANGED <<atexit, alive, made, yielded, log, gcscp>>

\* with_session_tmpdir, from the return or the exception of the wrapped
\* function: nothing is removed.
ExitSession ==
    /\ call.pc = "exit" /\ call.op \in SessionOps
    /\ ret' = [op |-> call.op, a |-> call.a, tmpdir |-> call.tmpdir,
               err |-> call.err, value |-> call.value]
    /\ call' = Idle
    /\ UNCHANGED <<files, tmpdirs, atexit, alive, made, gen, yielded, log, gcscp>>

\* The end of the process: the handlers registered with atexit run.
ProcessExit ==
    /\ alive /\ call.pc = "idle"
    /\ alive' = FALSE
    /\ files' = cleanup(files, atexit)
    /\ tmpdirs' = tmpdirs \ atexit
    /\ UNCHANGED <<atexit, made, call, ret, gen, yielded, log, gcscp>>

\* The consumer asks the generator for its next item: the body of iterate
\* runs from where it stands to its next yield, its return or an exception.
GenNext ==
    /\ alive /\ gen.st \in {"created", "suspended"}
    /\ With(IF gen.st = "created"
            THEN _collect(gen.a.path, gen.a.cgroups, gen.a.rgroups,
                          files, tmpdirs, gen.tmpdir)
            ELSE [err |-> OK, grouped |-> gen.grouped, fs |-> files], LAMBDA c :
       With(IF gen.st = "created" THEN units_of(gen.a.axis, c.grouped)
            ELSE [err |-> OK, units |-> gen.units], LAMBDA u :
       With([gen EXCEPT !.grouped = c.grouped, !.units = u.units,
                        !.log = IF gen.st = "created" THEN c.log ELSE gen.log],
            LAMBDA at :
         /\ files' = c.fs
         /\ IF c.err # OK
            THEN gen' = [at EXCEPT !.st = "raised", !.err = c.err] /\ UNCHANGED yielded
            ELSE IF u.err # OK
            THEN gen' = [at EXCEPT !.st = "raised", !.err = u.err] /\ UNCHANGED yielded
            ELSE IF gen.k + 1 > Len(u.units)
            THEN gen' = [at EXCEPT !.st = "done"] /\ UNCHANGED yielded
            ELSE With(yield_of(gen.a, c.grouped, u.units[gen.k + 1], c.fs), LAMBDA y :
                   LET read == at.log \o reads_of(gen.a, c.grouped, u.units[gen.k + 1], c.fs)
                   IN  IF y.err # OK
                       THEN gen' = [at EXCEPT !.st = "raised", !.err = y.err,
                                              !.log = read]
                            /\ UNCHANGED yielded
                       ELSE /\ gen' = [at EXCEPT !.st = "suspended", !.k = gen.k + 1,
                                                 !.log = read]
                            /\ yielded' = Append(yielded, y.item)))))
    /\ UNCHANGED <<tmpdirs, atexit, alive, made, call, ret, log, gcscp>>

\* The consumer abandons the generator.
GenClose ==
    /\ alive /\ gen.st \in {"created", "suspended"}
    /\ gen' = [gen EXCEPT !.st = "closed"]
    /\ UNCHANGED <<files, tmpdirs, atexit, alive, made, call, ret, yielded, log, gcscp>>

\* _collect called on its own, with a staging directory of the caller's.
Collect ==
    /\ call.pc = "body" /\ call.op = "_collect"
    /\ With(_collect(call.a.path, call.a.cgroups, call.a.rgroups,
                     files, tmpdirs, call.tmpdir), LAMBDA c :
         /\ files' = c.fs
         /\ log' = c.log
         /\ ret' = [op |-> call.op, a |-> call.a, tmpdir |-> call.tmpdir,
                    err |-> c.err, value |-> c.grouped])
    /\ call' = Idle
    /\ UNCHANGED <<tmpdirs, atexit, alive, made, gen, yielded, gcscp>>

(***************************************************************************)
(* The trees, tables and arguments the operations are run on.              *)
(***************************************************************************)

R == <<"/", "r">>
B == <<"g", "s", ":", "/", "/", "b">>
A_ == <<"a">>
B_ == <<"b">>
C0 == <<"c", "0">>
C1 == <<"c", "1">>
C10 == <<"c", "1", "0">>
CX == <<"c", "x">>
P0 == <<"p", "0", ".", "p", "q">>
P1 == <<"p", "1", ".", "p", "q">>
P2 == <<"p", "2", ".", "p", "q">>
Notes == <<"n", "o", "t", "e", "s">>
Star == <<"*">>
StagingDir == <<"/", "s">>

\* os.path.join of several parts
Path(parts) == IF Len(parts) = 1 THEN parts[1]
               ELSE Concat([i \in DOMAIN parts |->
                              IF i = 1 THEN parts[i] ELSE <<"/">> \o parts[i]])

File(parts, data) == [path |-> Path(parts), data |-> data]

\* Tables of a key k and one more column; those of one row group share
\* the keys.
KA0 == [cols |-> <<"k", "a">>, rows |-> <<<<1, 11>>, <<2, 12>>>>]
KA1 == [cols |-> <<"k", "a">>, rows |-> <<<<3, 13>>>>]
KB0 == [cols |-> <<"k", "b">>, rows |-> <<<<1, 21>>, <<2, 22>>>>]
KB1 == [cols |-> <<"k", "b">>, rows |-> <<<<3, 23>>>>]
KB2 == [cols |-> <<"k", "b">>, rows |-> <<<<4, 24>>>>]
KA9 == [cols |-> <<"k", "a">>, rows |-> <<<<5, 15>>>>]

TreeLocal ==
    SortEntries(<<File(<<R, C0, P0>>, KA0), File(<<R, C0, P1>>, KA1),
                  File(<<R, C1, P0>>, KB0), File(<<R, C1, P1>>, KB1),
                  File(<<R, C1, P2>>, KB2), File(<<R, C1, Notes>>, KB2)>>)

TreeRemote ==
    SortEntries(<<File(<<B, C0, P0>>, KA0), File(<<B, C0, P1>>, KA1),
                  File(<<B, C1, P0>>, KB0)>>)

TreeNested ==
    SortEntries(<<File(<<R, A_, C0, P0>>, KA0), File(<<R, B_, C0, P0>>, KA9),
                  File(<<R, B_, C0, P1>>, KA1), File(<<R, B_, C1, P0>>, KB0)>>)

TreeSiblings ==
    SortEntries(<<File(<<R, C0, P0>>, KA0), File(<<R, C1, P0>>, KB0),
                  File(<<R, C10, P0>>, KB0), File(<<R, C10, P1>>, KB1)>>)

CollectTrees == {TreeLocal, TreeRemote, TreeNested, TreeSiblings}

CollectPaths ==
    {R, Path(<<R, Star>>), Path(<<R, Star, P0>>), Path(<<R, Star, C0>>),
     Path(<<R, C1>>), B, Path(<<B, Star>>), Path(<<R, CX>>)}

CollectCgroups ==
    {None, Some(<<C0>>), Some(<<C1, C0>>), Some(<<C0, CX>>), Some(<<C1, C0, C1>>),
     Some(<<>>)}

CollectRgroups == {None, Some(<<P0>>), Some(<<P2, P1>>), Some(<<Notes>>)}

CollectArgs ==
    {[path |-> p, cgroups |-> c, rgroups |-> r] :
       p \in CollectPaths, c \in CollectCgroups, r \in CollectRgroups}

InitCollect ==
    /\ files \in CollectTrees
    /\ tmpdirs = {StagingDir}
    /\ atexit = {}
    /\ alive = TRUE
    /\ made = 0
    /\ call \in {[pc |-> "body", op |-> "_collect", a |-> a, tmpdir |-> StagingDir] :
                   a \in CollectArgs}
    /\ ret = NoReturn
    /\ gen = NoGen
    /\ yielded = <<>>
    /\ log = <<>>
    /\ gcscp = GCSFileSystem(TRUE, TRUE)

NextCollect == Collect

SpecCollect == InitCollect /\ [][NextCollect]_vars

(***************************************************************************)
(* The collector's claims, under SpecCollect.                              *)
(***************************************************************************)

Collected == ret.op = "_collect" /\ ret.err = OK

\* The files of a Grouping, each as its column group and row group.
Members(grouped) ==
    UNION {{<<grouped[g].name, _rname(grouped[g].paths[i])>> :
              i \in DOMAIN grouped[g].paths} : g \in DOMAIN grouped}

\* C3: _collect never returns an empty Grouping: when no file is left
\* after the listing, the expansion and the filter, it raises.
C3_NeverEmptyGrouping == Collected => ret.value # <<>>

\* C4: the Grouping lists the column groups in the order of the caller's
\* cgroups when given (a name given twice at its first place), and in
\* strictly ascending order of name otherwise.
C4_GroupingOrder ==
    Collected =>
        IF IsNone(ret.a.cgroups)
        THEN \A i, j \in DOMAIN ret.value :
                i < j => StrLess(ret.value[i].name, ret.value[j].name)
        ELSE Keys(ret.value) = FirstOccurrences(Val(ret.a.cgroups))

C4_Witness ==
    /\ Collected
    /\ ret.a.cgroups = Some(<<C1, C0>>)
    /\ Keys(ret.value) = <<C1, C0>>

\* The listed and expanded paths a filter with these arguments keeps.
Wanted(a, listed) ==
    {i \in DOMAIN listed :
       /\ IsNone(a.cgroups) \/ _cname(listed[i]) \in Range(Val(a.cgroups))
       /\ IsNone(a.rgroups) \/ _rname(listed[i]) \in Range(Val(a.rgroups))}

\* C5: with cgroups given, _collect raises when a requested column group
\* has no listed file that passes the filter; a Grouping that is returned
\* holds every requested column group with at least one file.
C5_NoGroupDropped ==
    [][call.pc = "body" /\ call.op = "_collect" /\ ret'.op = "_collect"
       /\ ~IsNone(call.a.cgroups) =>
         With(_expand(ls(files, tmpdirs, call.a.path), files, tmpdirs), LAMBDA listed :
           LET asked == Val(call.a.cgroups)
           IN  /\ (\E n \in DOMAIN asked :
                      \A i \in Wanted(call.a, listed) : _cname(listed[i]) # asked[n])
                     => ret'.err # OK
               /\ ret'.err = OK =>
                     \A n \in DOMAIN asked :
                        /\ HasKey(ret'.value, asked[n])
                        /\ Get(ret'.value, asked[n]) # <<>>)
    ]_vars

C5_Witness ==
    /\ ret.op = "_collect"
    /\ ret.a.cgroups = Some(<<C0, CX>>)
    /\ ret.a.rgroups = None
    /\ ret.a.path = R
    /\ files = TreeLocal
    /\ ret.err = "KeyError"

IterTrees == {TreeLocal, TreeRemote, TreeNested}

IterArgs ==
    {[path |-> p, axis |-> x, cgroups |-> c, rgroups |-> None, merge |-> "inner"] :
       p \in {R, B}, x \in {0 - 1, 0, 1}, c \in {None, Some(<<C1, C0>>)}}
    \cup {[path |-> Path(<<R, Star, C0>>), axis |-> 0, cgroups |-> None,
           rgroups |-> None, merge |-> "inner"],
          [path |-> R, axis |-> 0, cgroups |-> Some(<<C0>>),
           rgroups |-> None, merge |-> "inner"],
          [path |-> R, axis |-> 2, cgroups |-> None,
           rgroups |-> None, merge |-> "inner"],
          [path |-> B, axis |-> 2, cgroups |-> None,
           rgroups |-> None, merge |-> "inner"]}

InitProcess(trees) ==
    /\ files \in trees
    /\ tmpdirs = {}
    /\ atexit = {}
    /\ alive = TRUE
    /\ made = 0
    /\ call = Idle
    /\ ret = NoReturn
    /\ gen = NoGen
    /\ yielded = <<>>
    /\ log = <<>>
    /\ gcscp = GCSFileSystem(TRUE, TRUE)

InitIterate == InitProcess(IterTrees)

NextIterate ==
    \/ EnterFunction([iterate |-> IterArgs], MaxIterCalls)
    \/ BodyIterate
    \/ ExitFunction
    \/ GenNext
    \/ GenClose
    \/ ProcessExit

SpecIterate == InitIterate /\ [][NextIterate]_vars

\* The row-group names that occur in every column group of a Grouping.
SharedNames(grouped) ==
    {n \in UNION {{_rname(grouped[g].paths[i]) : i \in DOMAIN grouped[g].paths} :
                    g \in DOMAIN grouped} :
       \A g \in DOMAIN grouped :
          \E i \in DOMAIN grouped[g].paths : _rname(grouped[g].paths[i]) = n}

\* C7: iterate(axis=0) yields one item for each row-group name that occurs
\* in every column group and for no other name, in strictly ascending
\* order of the name.
C7_OneItemPerSharedName ==
    gen.st \in {"suspended", "done"} /\ gen.a.axis = 0 =>
        /\ \A i, j \in DOMAIN yielded : i < j => StrLess(yielded[i][1], yielded[j][1])
        /\ \A i \in DOMAIN yielded : yielded[i][1] \in SharedNames(gen.grouped)
        /\ gen.st = "done" =>
             SharedNames(gen.grouped) = {yielded[i][1] : i \in DOMAIN yielded}

\* C8: the staging directory of an iterate call exists as long as the
\* consumer may still take an item, and nothing is left of it once the
\* sequence is over and the call has returned.
C8_StagingSpansConsumption ==
    /\ gen.st \in {"created", "suspended"} => DirExists(files, tmpdirs, gen.tmpdir)
    /\ gen.st \in {"done", "closed", "raised"} /\ call.pc = "idle" =>
         ~DirExists(files, tmpdirs, gen.tmpdir)

(***************************************************************************)
(* assemble, divide, place and partitioned, and the end of the process.    *)
(***************************************************************************)

MaxRgroup == 2

C2_ == <<"c", "2">>
D == <<"/", "d">>
XPq == <<"x", ".", "p", "q">>
Pq == <<".", "p", "q">>
KC0 == [cols |-> <<"k", "c">>, rows |-> <<<<2, 32>>, <<1, 31>>>>]
T3 == [cols |-> <<"k", "a", "b">>,
       rows |-> <<<<1, 11, 21>>, <<2, 12, 22>>, <<3, 13, 23>>>>]

TreeThree ==
    SortEntries(<<File(<<R, C0, P0>>, KA0), File(<<R, C1, P0>>, KB0),
                  File(<<R, C2_, P0>>, KC0)>>)

OpsTrees == {TreeLocal, TreeRemote, TreeThree}

AssembleArgs ==
    {[path |-> p, cgroups |-> None, rgroups |-> None, merge |-> m] :
       p \in {R, B}, m \in {"inner", "outer"}}
    \cup {[path |-> R, cgroups |-> c, rgroups |-> Some(<<P0>>), merge |-> m] :
            c \in {Some(<<C1, C0>>), Some(<<C2_, C0, C1>>)}, m \in {"inner", "left"}}
    \cup {[path |-> R, cgroups |-> None, rgroups |-> None, merge |-> "bogus"],
          [path |-> D, cgroups |-> None, rgroups |-> None, merge |-> "right"]}

ByColumn == <<[cname |-> Some(C0), columns |-> <<"k", "a">>],
              [cname |-> Some(C1), columns |-> <<"k", "b">>]>>

DivideArgs ==
    {[df |-> T3, path |-> p, n_rgroup |-> n, rgroup_offset |-> 0, cgroup_columns |-> m,
      extension |-> Pq, prefix |-> None, failing |-> f] :
       p \in {D, Path(<<B, D>>)}, n \in 1..MaxRgroup, m \in {None, Some(ByColumn)},
       f \in {0, 2}}
    \cup {[df |-> T3, path |-> D, n_rgroup |-> n, rgroup_offset |-> 0,
           cgroup_columns |-> m, extension |-> e, prefix |-> None, failing |-> 0] :
            n \in {0}, m \in {None}, e \in {Pq}}
    \cup {[df |-> T3, path |-> D, n_rgroup |-> 1, rgroup_offset |-> 0,
           cgroup_columns |-> Some(<<ByColumn[1],
                                     [cname |-> Some(C1), columns |-> <<"k", "z">>]>>),
           extension |-> Pq, prefix |-> None, failing |-> 0]}

PlaceArgs == {[df |-> T3, path |-> p] : p \in {Path(<<D, XPq>>), Path(<<B, XPq>>), D}}

PartitionedArgs ==
    {[path |-> p, cgroups |-> None, rgroups |-> None, merge |-> "inner", dask |-> d] :
       p \in {R, B}, d \in BOOLEAN}

OpsArgs == [assemble |-> AssembleArgs, divide |-> DivideArgs, place |-> PlaceArgs,
            partitioned |-> PartitionedArgs]

InitOps == InitProcess(OpsTrees)

NextOps ==
    \/ EnterFunction(OpsArgs, MaxCalls)
    \/ EnterSession(OpsArgs, MaxCalls)
    \/ BodyAssemble
    \/ BodyDivide
    \/ BodyPlace
    \/ BodyPartitioned
    \/ ExitFunction
    \/ ExitSession
    \/ ProcessExit

SpecOps == InitOps /\ [][NextOps]_vars

\* The table of one column group: its files, read in their listed order,
\* one below the other.
GroupTable(fs, paths) ==
    pd_concat([i \in DOMAIN paths |-> fs[Find(fs, paths[i], 0)].data])

\* The values a row has in some of the columns of its table.
Proj(df, cols, row) == [i \in DOMAIN cols |-> row[Pos(df.cols, cols[i])]]

\* C2: assemble returns the join of the column groups' tables taken
\* pairwise from left to right in Grouping order with the requested mode,
\* each table being the group's files one below the other in listed order;
\* its columns are those of the groups in group order, a shared one once;
\* groups that share one aligned unique key give one row per key, made of
\* that key's row in every group.
C2_LeftToRightJoin ==
    [][call.pc = "body" /\ call.op = "assemble" /\ call'.pc = "exit" /\ call'.err = OK =>
         With(_collect(call.a.path, call.a.cgroups, call.a.rgroups,
                       files, tmpdirs, call.tmpdir), LAMBDA c :
           LET n == Len(c.grouped)
               t(g) == GroupTable(c.fs, c.grouped[g].paths)
               m == call.a.merge
               got == call'.value.df
               on == SelectSeq(t(1).cols, LAMBDA x : \A g \in 1..n : In(x, t(g).cols))
               keys(g) == {Proj(t(g), on, t(g).rows[r]) : r \in DOMAIN t(g).rows}
               aligned == \A g \in 1..n : /\ keys(g) = keys(1)
                                         /\ Cardinality(keys(g)) = Len(t(g).rows)
           IN  /\ n \in 1..3
               /\ got = IF n = 1 THEN t(1)
                        ELSE IF n = 2 THEN pd_merge(t(1), t(2), m).df
                        ELSE pd_merge(pd_merge(t(1), t(2), m).df, t(3), m).df
               /\ got.cols = FirstOccurrences(Concat([g \in 1..n |-> t(g).cols]))
               /\ aligned =>
                    /\ Len(got.rows) = Len(t(1).rows)
                    /\ \A r \in DOMAIN got.rows : \A g \in 1..n :
                          Proj(got, t(g).cols, got.rows[r]) \in Range(t(g).rows))
    ]_vars

C2_Witness ==
    /\ call.pc = "exit" /\ call.op = "assemble" /\ call.err = OK
    /\ call.a.cgroups = Some(<<C2_, C0, C1>>)
    /\ call.value.df.cols = <<"k", "c", "a", "b">>
    /\ Len(call.value.df.rows) = 2

\* C9: the staging directory of assemble, divide and place exists from
\* the start of the body to its end and is gone once the call has returned
\* or raised; the one of partitioned exists as long as the process runs
\* and is gone after its exit.
C9_StagingScope ==
    /\ call.pc \in {"body", "exit"} => call.tmpdir \in tmpdirs
    /\ call.pc = "idle" /\ ret.op \in {"assemble", "divide", "place"} =>
         ~DirExists(files, tmpdirs, ret.tmpdir)
    /\ alive => atexit \subseteq tmpdirs
    /\ ~alive => \A t \in atexit : ~DirExists(files, tmpdirs, t)

C9_Witness ==
    /\ call.pc = "idle" /\ ret.op = "divide" /\ ret.err = "CodecError"
    /\ ~DirExists(files, tmpdirs, ret.tmpdir)
    /\ atexit = {}

\* C10: divide calls the copy to the destination once, after it has
\* written every shard of every column group to staging; when a write
\* raises, it copies nothing and the storage outside its staging directory
\* is as it was.
C10_OneCopyAfterStaging ==
    [][call.pc = "body" /\ call.op = "divide" /\ call'.pc = "exit" =>
         LET shards == call.a.n_rgroup * (IF IsNone(call.a.cgroup_columns) THEN 1
                                          ELSE Len(Val(call.a.cgroup_columns)))
         IN  /\ call'.err = OK =>
                  /\ Len(SelectSeq(log', LAMBDA e : e.op = "copy")) = 1
                  /\ log'[1] = [op |-> "write_df", n |-> shards]
                  /\ log'[2] = [op |-> "copy", n |-> shards]
             /\ call'.err # OK =>
                  /\ \A i \in DOMAIN log' : log'[i].op = "write_df"
                  /\ cleanup(files', {call.tmpdir}) = files
    ]_vars

C10_Witness ==
    /\ call.pc = "exit" /\ call.op = "divide" /\ call.err = "CodecError"
    /\ log = <<[op |-> "write_df", n |-> 1]>>
    /\ \E i \in DOMAIN files : Under(call.tmpdir, files[i].path)

(***************************************************************************)
(* divide into an empty directory, then assemble of that directory.        *)
(***************************************************************************)

MaxShards == 5
MaxRows == 4
MaxCols == 2

\* The first n_rgroup whose last index has more digits than the padding.
Overflowing == 10 ^ PadWidth + 1

\* A table of `rows` rows and `cols` columns, no two rows alike.
Table(cols, rows) ==
    [cols |-> SubSeq(<<"k", "v", "w">>, 1, cols),
     rows |-> ListOf([i \in 1..rows |-> [c \in 1..cols |-> i * c]])]

\* What the test divides: the shape of the table and n_rgroup.
RoundTripInputs ==
    {[cols |-> c, rows |-> r, n_rgroup |-> n] :
       c \in 1..MaxCols, r \in 0..MaxRows, n \in 1..MaxShards}
    \cup {[cols |-> 1, rows |-> Overflowing, n_rgroup |-> Overflowing]}

RECURSIVE FirstDifference(_, _, _, _)
\* The first position in lo..hi where a and b differ, 0 when there is none.
FirstDifference(a, b, lo, hi) ==
    IF lo > hi \/ SubSeq(a, lo, hi) = SubSeq(b, lo, hi) THEN 0
    ELSE IF lo = hi THEN lo
    ELSE LET mid == (lo + hi) \div 2
             low == FirstDifference(a, b, lo, mid)
         IN  IF low # 0 THEN low ELSE FirstDifference(a, b, mid + 1, hi)

\* What the test sees of the table assemble returned: its columns, the
\* number of its rows, and the first row that is not the row divide was
\* given at that position (0: every row is).
Compared(df, given) ==
    [cols |-> df.cols, rows |-> Len(df.rows),
     moved |-> FirstDifference(df.rows, given.rows, 1,
                               Min(Len(df.rows), Len(given.rows)))]

\* The test starts in a data directory of its own, which is empty; the two
\* calls get their staging directories from mkdtemp.
InitRoundTrip ==
    /\ files = <<>>
    /\ tmpdirs = {}
    /\ atexit = {}
    /\ alive = TRUE
    /\ made = 0
    /\ call \in {[pc |-> "test", op |-> "test_divide", a |-> a, staging |-> <<t, u>>] :
                   a \in RoundTripInputs, t \in TmpNames, u \in TmpNames}
    /\ ret = NoReturn
    /\ gen = NoGen
    /\ yielded = <<>>
    /\ log = <<>>
    /\ gcscp = GCSFileSystem(TRUE, TRUE)

\* divide(df, datadir, n_rgroup) and then assemble(datadir), each call in its
\* staging directory, which is removed when the call returns.  The data
\* directory goes with the test; of the table that came back the state
\* keeps what the test compares.
test_divide ==
    /\ call.pc = "test"
    /\ call.staging[1] \in mkdtemp(files, tmpdirs)
    /\ With(Table(call.a.cols, call.a.rows), LAMBDA df :
       With(divide([df |-> df, path |-> D, n_rgroup |-> call.a.n_rgroup,
                    rgroup_offset |-> 0, cgroup_columns |-> None, extension |-> Pq,
                    prefix |-> None, failing |-> 0],
                   files, {call.staging[1]}, call.staging[1]), LAMBDA d :
       With(cleanup(d.fs, {call.staging[1]}), LAMBDA datadir :
         /\ call.staging[2] \in mkdtemp(datadir, tmpdirs)
         /\ With(assemble([path |-> D, cgroups |-> None, rgroups |-> None,
                           merge |-> "inner"],
                          datadir, {call.staging[2]}, call.staging[2]), LAMBDA r :
              ret' = [op |-> "test_divide", a |-> call.a, divided |-> d.err,
                      written |-> Len(datadir), err |-> r.err,
                      value |-> IF r.err = OK THEN Compared(r.df, df) ELSE None]))))
    /\ call' = Idle
    /\ made' = made + 1
    /\ UNCHANGED <<files, tmpdirs, atexit, alive, gen, yielded, log, gcscp>>

NextRoundTrip == test_divide

SpecRoundTrip == InitRoundTrip /\ [][NextRoundTrip]_vars

\* C1: for every table and every n_rgroup >= 1, assemble of a directory
\* that divide has just filled with no column-group map returns the
\* divided table: the same columns and the same rows in the same order.
C1_RoundTrip ==
    ret.op = "test_divide" /\ ret.a.n_rgroup >= 1 =>
        /\ ret.divided = OK /\ ret.err = OK
        /\ ret.value.cols = Table(ret.a.cols, 0).cols
        /\ ret.value.rows = ret.a.rows
        /\ ret.value.moved = 0

(***************************************************************************)
(* divide on its own: tables of every small shape into an empty directory. *)
(***************************************************************************)

\* The column groups a table of these columns is divided into.
Split(cols) == <<[cname |-> Some(C0), columns |-> <<cols[1]>>],
                 [cname |-> Some(C1), columns |-> cols]>>

ShardArgs ==
    {[df |-> Table(c, r), path |-> D, n_rgroup |-> n, rgroup_offset |-> o,
      cgroup_columns |-> IF m THEN Some(Split(Table(c, 0).cols)) ELSE None,
      extension |-> Pq, prefix |-> None, failing |-> 0] :
       c \in 1..MaxCols, r \in 0..MaxRows, n \in 1..MaxShards, o \in {0, 8},
       m \in BOOLEAN}

InitShards == InitProcess({<<>>})

\* One call of divide, into the empty directory.
NextShards ==
    \/ EnterFunction([divide |-> ShardArgs], 1)
    \/ BodyDivide
    \/ ExitFunction

SpecShards == InitShards /\ [][NextShards]_vars

\* The column groups of a divide call, as the call names them.
ItemsOf(a) ==
    IF IsNone(a.cgroup_columns) THEN <<[cname |-> None, columns |-> a.df.cols]>>
    ELSE Val(a.cgroup_columns)

\* Where the shard of index i (from 0) of a column group has been put.
ShardPath(a, item, i) ==
    LET rn == rname_of(i, a.rgroup_offset, a.extension, a.prefix)
    IN  IF IsNone(item.cname) THEN join(a.path, rn)
        ELSE join(join(a.path, Val(item.cname)), rn)

\* The table stored as the shard of index i: no table when there is none.
ShardOf(fs, a, item, i) ==
    LET at == {x \in DOMAIN fs : fs[x].path = ShardPath(a, item, i)}
    IN  IF at = {} THEN None ELSE Some(fs[CHOOSE x \in at : TRUE].data)

\* The files stored in the directory of a column group.
StoredIn(fs, a, item) ==
    LET dir == IF IsNone(item.cname) THEN a.path ELSE join(a.path, Val(item.cname))
    IN  {x \in DOMAIN fs : dirname(fs[x].path) = dir}

\* C11: for a table of R rows and n_rgroup >= 1, divide stores for each
\* column group exactly n_rgroup shards with the group's columns; their
\* sizes differ by at most one, never grow with the index (the longer
\* shards come first) and sum to R; the shards one below the other in index
\* order are the rows of the table in their order, so each is contiguous.
C11_BalancedShards ==
    call.pc = "exit" /\ call.op = "divide" /\ call.a.n_rgroup >= 1 =>
        /\ call.err = OK
        /\ \A k \in DOMAIN ItemsOf(call.a) :
             LET item == ItemsOf(call.a)[k]
                 n == call.a.n_rgroup
                 shard(i) == ShardOf(files, call.a, item, i - 1)
                 rows(i) == Val(shard(i)).rows
                 size == [i \in 1..n |-> Len(rows(i))]
                 before == [i \in 1..n |-> Len(Concat([j \in 1..(i - 1) |-> rows(j)]))]
             IN  /\ \A i \in 1..n : ~IsNone(shard(i))
                 /\ Cardinality(StoredIn(files, call.a, item)) = n
                 /\ \A i \in 1..n : Val(shard(i)).cols = item.columns
                 /\ \A i, j \in 1..n : size[i] - size[j] <= 1
                 /\ \A i, j \in 1..n : i < j => size[i] >= size[j]
                 /\ before[n] + size[n] = Len(call.a.df.rows)
                 /\ \A i \in 1..n : \A r \in 1..size[i] :
                       rows(i)[r] = Proj(call.a.df, item.columns,
                                         call.a.df.rows[before[i] + r])

C11_Witness ==
    /\ call.pc = "exit" /\ call.op = "divide" /\ call.err = OK
    /\ Len(call.a.df.rows) = 4 /\ call.a.n_rgroup = 3 /\ call.a.rgroup_offset = 8
    /\ ~IsNone(call.a.cgroup_columns)
    /\ ShardOf(files, call.a, ItemsOf(call.a)[1], 0) =
         Some([cols |-> <<"k">>, rows |-> <<<<1>>, <<2>>>>])
    /\ ShardOf(files, call.a, ItemsOf(call.a)[1], 2) =
         Some([cols |-> <<"k">>, rows |-> <<<<4>>>>])

(***************************************************************************)
(* The order in which the files of a column group are read: assemble and   *)
(* iterate(axis=1) on trees whose column groups lie in one directory, in   *)
(* several directories of the same name, locally and remotely.             *)
(***************************************************************************)

TreeCrossed ==
    SortEntries(<<File(<<R, A_, C0, P1>>, KA1), File(<<R, B_, C0, P0>>, KA0),
                  File(<<R, B_, C1, P0>>, KB0)>>)

TreeCrossedRemote ==
    SortEntries(<<File(<<B, A_, C0, P1>>, KA1), File(<<B, B_, C0, P0>>, KA0),
                  File(<<B, B_, C1, P0>>, KB0)>>)

OrderTrees == {TreeLocal, TreeRemote, TreeNested, TreeCrossed, TreeCrossedRemote}

OrderArgs ==
    [assemble |-> {[path |-> p, cgroups |-> Some(<<c>>), rgroups |-> None,
                    merge |-> "inner"] : p \in {R, B}, c \in {C0, C1}},
     iterate |-> {[path |-> p, axis |-> 1, cgroups |-> c, rgroups |-> None,
                   merge |-> "inner"] : p \in {R, B}, c \in {None, Some(<<C1, C0>>)}}]

InitOrder == InitProcess(OrderTrees)

NextOrder ==
    \/ EnterFunction(OrderArgs, MaxCalls)
    \/ BodyAssemble
    \/ BodyIterate
    \/ ExitFunction
    \/ GenNext

SpecOrder == InitOrder /\ [][NextOrder]_vars

\* The base names of the stored files of a column group, staged copies
\* apart, that hold a row.
NamesHolding(fs, cname, row) ==
    {_rname(fs[i].path) : i \in {x \in DOMAIN fs :
        /\ \A t \in TmpNames : ~Under(t, fs[x].path)
        /\ _has_ext(fs[x].path)
        /\ _cname(fs[x].path) = cname
        /\ row \in Range(fs[x].data.rows)}}

\* The rows of the table of a column group come from its files taken in
\* ascending order of their base names.
InNameOrder(fs, cname, df) ==
    /\ \A r \in DOMAIN df.rows : NamesHolding(fs, cname, df.rows[r]) # {}
    /\ \A r, q \in DOMAIN df.rows : r < q =>
          \A x \in NamesHolding(fs, cname, df.rows[r]) :
             \A y \in NamesHolding(fs, cname, df.rows[q]) : ~StrLess(y, x)

\* C12: the table assemble returns for one column group, and each table
\* iterate(axis=1) yields, holds the rows of the group's files in
\* ascending order of the files' base names.
C12_FilesInNameOrder ==
    /\ gen.st \in {"suspended", "done"} /\ gen.a.axis = 1 =>
         \A i \in DOMAIN yielded : InNameOrder(files, yielded[i][1], yielded[i][2])
    /\ call.pc = "exit" /\ call.op = "assemble" /\ call.err = OK =>
         InNameOrder(files, Val(call.a.cgroups)[1], call.value.df)

(***************************************************************************)
(* _access on its own: the column groups of a listing, as _collect hands   *)
(* them over, staged into a directory of the caller's.                     *)
(***************************************************************************)

TreeNestedRemote ==
    SortEntries(<<File(<<B, A_, C0, P0>>, KA0), File(<<B, B_, C0, P0>>, KA9),
                  File(<<B, B_, C0, P1>>, KA1), File(<<B, B_, C1, P0>>, KB0)>>)

AccessTrees == {TreeLocal, TreeRemote, TreeNested, TreeNestedRemote}

AccessArgs ==
    {[path |-> p, cgroups |-> c, rgroups |-> r] :
       p \in {R, B}, c \in {None, Some(<<C0>>), Some(<<C1>>), Some(<<C1, C0>>)},
       r \in {None, Some(<<P0>>), Some(<<P1>>)}}

InitAccess ==
    /\ files \in AccessTrees
    /\ tmpdirs = {StagingDir}
    /\ atexit = {}
    /\ alive = TRUE
    /\ made = 0
    /\ call \in {[pc |-> "body", op |-> "_access", a |-> a, tmpdir |-> StagingDir] :
                   a \in AccessArgs}
    /\ ret = NoReturn
    /\ gen = NoGen
    /\ yielded = <<>>
    /\ log = <<>>
    /\ gcscp = GCSFileSystem(TRUE, TRUE)

\* _access called with the column groups of the listing of a path.
Access ==
    /\ call.pc = "body" /\ call.op = "_access"
    /\ With(_cgroups(_filter(_expand(ls(files, tmpdirs, call.a.path), files, tmpdirs),
                             call.a.cgroups, call.a.rgroups)), LAMBDA cgroups :
       With(_access(cgroups, files, tmpdirs, call.tmpdir), LAMBDA r :
         /\ files' = r.fs
         /\ log' = r.log
         /\ ret' = [op |-> call.op, a |-> call.a, tmpdir |-> call.tmpdir,
                    err |-> r.err, cgroups |-> cgroups, value |-> r.updated]))
    /\ call' = Idle
    /\ UNCHANGED <<tmpdirs, atexit, alive, made, gen, yielded, gcscp>>

NextAccess == Access

SpecAccess == InitAccess /\ [][NextAccess]_vars

\* The row-group names of some paths, in ascending order, each as often
\* as it occurs.
RnamesOf(paths) == Sorted([i \in DOMAIN paths |-> _rname(paths[i])])

\* C13: _access returns every column group it was given; a group of local
\* paths with the same paths, nothing having been copied for it; a group
\* of remote paths with as many paths as before, each in the group's
\* subdirectory of the staging directory, with the same row-group names.
C13_AccessKeepsFiles ==
    ret.op = "_access" /\ ret.err = OK =>
        /\ Keys(ret.value) = Keys(ret.cgroups)
        /\ \A g \in DOMAIN ret.cgroups :
             LET before == ret.cgroups[g].paths
                 after == Get(ret.value, ret.cgroups[g].name)
             IN  IF IsNone(split_protocol(before[1]).protocol)
                 THEN after = before /\ log = <<>>
                 ELSE /\ Len(after) = Len(before)
                      /\ RnamesOf(after) = RnamesOf(before)
                      /\ \A i \in DOMAIN after :
                            dirname(after[i]) = join(ret.tmpdir, ret.cgroups[g].name)

(***************************************************************************)
(* _expand on its own: the listing of a path, or paths given one by one.   *)
(***************************************************************************)

Deep == <<"*", "*">>

ExpandTrees == {TreeLocal, TreeRemote, TreeNested, TreeSiblings, TreeNestedRemote}

ExpandArgs ==
    {[kind |-> "ls", url |-> u, paths |-> <<>>] :
       u \in {R, Path(<<R, Star>>), Path(<<R, Star, Star>>), Path(<<R, Deep>>),
              B, Path(<<B, Star, Star>>), Path(<<B, Deep>>), Path(<<R, C1>>)}}
    \cup {[kind |-> "paths", url |-> <<>>, paths |-> ps] :
            ps \in {<<Path(<<R, C1>>)>>,
                    <<Path(<<R, C1>>), Path(<<R, C0>>)>>,
                    <<Path(<<R, C1>>), Path(<<R, C1, P0>>)>>,
                    <<Path(<<R, C0, P0>>), Path(<<R, C0, P0>>)>>,
                    <<Path(<<R, B_>>), Path(<<R, CX>>)>>,
                    <<Path(<<B, C0>>)>>}}

InitExpand ==
    /\ files \in ExpandTrees
    /\ tmpdirs = {}
    /\ atexit = {}
    /\ alive = TRUE
    /\ made = 0
    /\ call \in {[pc |-> "body", op |-> "_expand", a |-> a] : a \in ExpandArgs}
    /\ ret = NoReturn
    /\ gen = NoGen
    /\ yielded = <<>>
    /\ log = <<>>
    /\ gcscp = GCSFileSystem(TRUE, TRUE)

\* _expand called with the listing of a path or with the paths given.
Expand ==
    /\ call.pc = "body" /\ call.op = "_expand"
    /\ With(IF call.a.kind = "ls" THEN ls(files, tmpdirs, call.a.url) ELSE call.a.paths,
            LAMBDA paths :
         ret' = [op |-> call.op, a |-> call.a, paths |-> paths,
                 value |-> _expand(paths, files, tmpdirs)])
    /\ call' = Idle
    /\ UNCHANGED <<files, tmpdirs, atexit, alive, made, gen, yielded, log, gcscp>>

NextExpand == Expand

SpecExpand == InitExpand /\ [][NextExpand]_vars

\* C14: the list _expand returns is strictly ascending (sorted, no path
\* twice), holds only paths with an extension, and each of them is one of
\* the input paths or lies, at some depth, in an input path that has no
\* extension.
C14_ExpandContained ==
    ret.op = "_expand" =>
        /\ \A i, j \in DOMAIN ret.value : i < j => StrLess(ret.value[i], ret.value[j])
        /\ \A i \in DOMAIN ret.value :
             /\ _has_ext(ret.value[i])
             /\ \/ In(ret.value[i], ret.paths)
                \/ \E k \in DOMAIN ret.paths :
                      ~_has_ext(ret.paths[k]) /\ Under(ret.paths[k], ret.value[i])

\* C15: for the listing of a root directory _expand returns what it
\* returns for the listing of root/*/* and of root/**, and applied to its
\* own result it returns that result; the list is that of the files with
\* an extension below the root, in ascending order.
C15_SameListing ==
    [][call.pc = "body" /\ call.op = "_expand" /\ call.a.kind = "ls"
       /\ call.a.url \in {R, B} =>
         /\ ret'.value = _expand(ls(files, tmpdirs, Path(<<call.a.url, Star, Star>>)),
                                 files, tmpdirs)
         /\ ret'.value = _expand(ls(files, tmpdirs, Path(<<call.a.url, Deep>>)),
                                 files, tmpdirs)
         /\ ret'.value = _expand(ret'.value, files, tmpdirs)
         /\ ret'.value = SetToSortedSeq({files[i].path : i \in {x \in DOMAIN files :
                            /\ Under(call.a.url, files[x].path)
                            /\ _has_ext(files[x].path)}})
    ]_vars

C15_Witness ==
    /\ ret.op = "_expand" /\ ret.a.kind = "ls" /\ ret.a.url = R
    /\ files = TreeSiblings
    /\ Len(ret.value) = 4
    /\ ret.paths = <<Path(<<R, C0>>), Path(<<R, C1>>), Path(<<R, C10>>)>>

(***************************************************************************)
(* partitioned against iterate(axis=0), under SpecOps.                     *)
(***************************************************************************)

\* C16: partitioned builds one partition for each row-group name that all
\* collected column groups share, and its partitions, in their order, are
\* the row groups iterate(axis=0) yields for the same Grouping: the same
\* names in ascending order, each with the same merged table.
C16_PartitionsAsIterate ==
    call.pc = "exit" /\ call.op = "partitioned" /\ call.err = OK =>
        LET grouped == call.value.grouped
            blocks == call.value.blocks
            units == units_of(0, grouped).units
            item(i) == yield_of([axis |-> 0, merge |-> call.a.merge], grouped,
                                units[i], files).item
        IN  /\ {blocks[i] : i \in DOMAIN blocks} = SharedNames(grouped)
            /\ Len(blocks) = Cardinality(SharedNames(grouped))
            /\ Len(blocks) = Len(units)
            /\ \A i \in DOMAIN blocks :
                  /\ blocks[i] = item(i)[1]
                  /\ merged(grouped, blocks[i], call.a.merge, files).df = item(i)[2]

(***************************************************************************)
(* Remote storage that fails.  The requests an operation sends to remote   *)
(* storage are numbered from 1; net names the first one that fails with a  *)
(* connection error and how many fail in a row from there.  The Collector  *)
(* is run with a filesystem object: FileSystem (filesystem/base.py) or     *)
(* GCSNativeFileSystem (filesystem/gcs_native_filesystem.py), which lists  *)
(* remote paths itself and inherits copy.                                  *)
(***************************************************************************)

MaxTrial == 6
MaxFaults == 8
MaxRequest == 6

Failing(net, req) == net.at <= req /\ req < net.at + net.times

\* One request, made once: st is [req, events].
requested(st, net, what) ==
    [err |-> IF Failing(net, st.req) THEN net.err ELSE OK,
     req |-> st.req + 1,
     events |-> Append(st.events, [op |-> what, n |-> st.req,
                                   failed |-> Failing(net, st.req)])]

\* The exceptions _retry_with_backoff catches.
Retried == {"ConnectionError", "ChunkedEncodingError"}

RECURSIVE in_turn(_, _, _, _)
\* Requests made one after the other, from the i-th on, up to the first
\* that raises.
in_turn(st, net, whats, i) ==
    IF i > Len(whats) THEN [err |-> OK, req |-> st.req, events |-> st.events]
    ELSE With(requested(st, net, whats[i]), LAMBDA r :
           IF r.err # OK THEN r ELSE in_turn(r, net, whats, i + 1))

RECURSIVE _retry_with_backoff(_, _, _, _)
RECURSIVE wrapped(_, _, _)

\* The function under the decorator: the body of _blob, _transfer, _read
\* or _write of GCSNativeFileSystem (_read and _write call _blob, which is
\* decorated itself), or else one request of the name given.
wrapped(st, net, what) ==
    CASE what = "_blob" -> requested(st, net, "get_bucket")
      [] what = "_transfer" -> in_turn(st, net, <<"get_bucket", "get_bucket", "copy_blob">>, 1)
      [] what = "_read" ->
           With(_retry_with_backoff(0, st, net, "_blob"), LAMBDA b :
             IF b.err # OK THEN b ELSE requested(b, net, "download_to_file"))
      [] what = "_write" ->
           With(_retry_with_backoff(0, st, net, "_blob"), LAMBDA b :
             IF b.err # OK THEN b ELSE requested(b, net, "upload_from_file"))
      [] OTHER -> requested(st, net, what)

\* A decorator that sleeps and tries once more after the last trial.
RECURSIVE _retry_with_backoff_once_more(_, _, _, _)
_retry_with_backoff_once_more(trial, st, net, what) ==
    With(wrapped(st, net, what), LAMBDA r :
      IF r.err \notin Retried \/ trial = MaxTrial + 1 THEN r
      ELSE _retry_with_backoff_once_more(trial + 1,
               [req |-> r.req,
                events |-> Append(r.events, [op |-> "sleep", n |-> 2 ^ (trial + 2),
                                             failed |-> FALSE])], net, what))

\* _retry_with_backoff around a function: the wrapped call is made again
\* after a connection error, 2 ^ (trial + 2) seconds later, until it
\* returns, raises another exception or the trial that fails is the one
\* numbered MaxTrial.
_retry_with_backoff(trial, st, net, what) ==
    With(wrapped(st, net, what), LAMBDA r :
      IF r.err \notin Retried \/ trial = MaxTrial THEN r
      ELSE _retry_with_backoff(trial + 1,
               [req |-> r.req,
                events |-> Append(r.events, [op |-> "sleep", n |-> 2 ^ (trial + 2),
                                             failed |-> FALSE])], net, what))

IsRemote(url) == ~IsNone(split_protocol(url).protocol)

\* filesystem.ls as far as its request goes: FileSystem asks the storage
\* once; GCSNativeFileSystem asks through _list_blobs, which is retried.
ls_on(kind, url, st, net) ==
    IF ~IsRemote(url) THEN [err |-> OK, req |-> st.req, events |-> st.events]
    ELSE IF kind = "GCSNativeFileSystem" THEN _retry_with_backoff(0, st, net, "ls")
    ELSE requested(st, net, "ls")

\* filesystem.copy of a remote column group as far as its request goes:
\* FileSystem.copy asks fs.get once; a GCSNativeFileSystem has none of
\* the attributes FileSystem.__init__ sets, and _get_filesystem raises.
copy_on(kind, st, net) ==
    IF kind = "GCSNativeFileSystem"
    THEN [err |-> "AttributeError", req |-> st.req, events |-> st.events]
    ELSE requested(st, net, "fs.get")

\* The calls of the filesystem _collect makes that may go to remote
\* storage, in their order: the listing of the path, the listing of each
\* listed path without an extension, the copy of each remote column group.
Plan(a, fs, live) ==
    With(ls(fs, live, a.path), LAMBDA paths :
      LET dirs == SelectSeq(paths, LAMBDA p : ~_has_ext(p))
          grouped == _cgroups(_filter(_expand(paths, fs, live), a.cgroups, a.rgroups))
          remote == SelectSeq(grouped, LAMBDA g : IsRemote(g.paths[1]))
      IN  <<[op |-> "ls", url |-> a.path]>>
          \o ListOf([i \in DOMAIN dirs |-> [op |-> "ls", url |-> dirs[i] \o <<"*", "*">>]])
          \o ListOf([i \in DOMAIN remote |-> [op |-> "copy", url |-> remote[i].paths[1]]]))

RECURSIVE Requests(_, _, _, _, _)
\* The calls of the plan from the i-th on, up to the first that raises.
Requests(kind, plan, i, st, net) ==
    IF i > Len(plan) THEN [err |-> OK, events |-> st.events, copied |-> 0]
    ELSE With(IF plan[i].op = "ls" THEN ls_on(kind, plan[i].url, st, net)
              ELSE copy_on(kind, st, net), LAMBDA r :
           IF r.err = OK THEN Requests(kind, plan, i + 1, r, net)
           ELSE [err |-> r.err, events |-> r.events,
                 copied |-> Len(SelectSeq(SubSeq(plan, 1, i - 1),
                                          LAMBDA s : s.op = "copy"))])

\* _collect with a filesystem of a kind on storage that fails as net
\* says.  A run none of whose calls raises is the run of _collect above;
\* one that raises leaves the column groups staged that it has copied.
_collect_on(a, fs, live, tmpdir) ==
    With(Requests(a.filesystem, Plan(a, fs, live), 1, [req |-> 1, events |-> <<>>], a.net),
         LAMBDA run :
      IF run.err = OK
      THEN [_collect(a.path, a.cgroups, a.rgroups, fs, live, tmpdir)
              EXCEPT !.log = run.events]
      ELSE With(_cgroups(_filter(_expand(ls(fs, live, a.path), fs, live),
                                 a.cgroups, a.rgroups)), LAMBDA grouped :
             [err |-> run.err, grouped |-> <<>>, log |-> run.events,
              fs |-> _access(SubSeq(grouped, 1, run.copied), fs, live, tmpdir).fs]))

\* assemble and list(iterate(...)) with such a filesystem: what they
\* return or raise, the storage they leave and the requests they made.
operation_on(op, a, fs, live, tmpdir) ==
    With(_collect_on(a, fs, live, tmpdir), LAMBDA c :
      IF c.err # OK THEN [err |-> c.err, fs |-> c.fs, log |-> c.log, value |-> None]
      ELSE IF op = "assemble"
      THEN With(assemble(a, fs, live, tmpdir), LAMBDA r :
             [err |-> r.err, fs |-> r.fs, log |-> c.log,
              value |-> IF r.err = OK THEN r.df ELSE None])
      ELSE With(units_of(a.axis, c.grouped), LAMBDA u :
             LET got == ListOf([i \in DOMAIN u.units |->
                                  yield_of(a, c.grouped, u.units[i], c.fs)])
                 bad == {i \in DOMAIN got : got[i].err # OK}
             IN  [err |-> IF u.err # OK THEN u.err
                          ELSE IF bad # {} THEN got[CHOOSE i \in bad : TRUE].err ELSE OK,
                  fs |-> c.fs, log |-> c.log,
                  value |-> IF u.err = OK /\ bad = {}
                            THEN ListOf([i \in DOMAIN got |-> got[i].item]) ELSE None]))

NetworkArgs ==
    {[path |-> p, axis |-> 0, cgroups |-> None, rgroups |-> None, merge |-> "inner",
      filesystem |-> k, net |-> [at |-> n, times |-> t, err |-> "ConnectionError"]] :
       p \in {B, Path(<<B, CX>>), R},
       k \in {"FileSystem", "GCSNativeFileSystem"},
       n \in 1..MaxRequest, t \in 0..MaxFaults}

InitNetwork ==
    /\ files \in {TreeRemote, TreeLocal}
    /\ tmpdirs = {StagingDir}
    /\ atexit = {}
    /\ alive = TRUE
    /\ made = 0
    /\ call \in {[pc |-> "body", op |-> op, a |-> a, tmpdir |-> StagingDir] :
                   op \in {"assemble", "iterate"}, a \in NetworkArgs}
    /\ ret = NoReturn
    /\ gen = NoGen
    /\ yielded = <<>>
    /\ log = <<>>
    /\ gcscp = GCSFileSystem(TRUE, TRUE)

\* assemble, or iterate consumed to its end, on storage that fails.
Operate ==
    /\ call.pc = "body" /\ call.op \in {"assemble", "iterate"}
    /\ With(operation_on(call.op, call.a, files, tmpdirs, call.tmpdir), LAMBDA r :
         /\ files' = r.fs
         /\ log' = r.log
         /\ ret' = [op |-> call.op, a |-> call.a, tmpdir |-> call.tmpdir,
                    err |-> r.err, value |-> r.value])
    /\ call' = Idle
    /\ UNCHANGED <<tmpdirs, atexit, alive, made, gen, yielded, gcscp>>

NextNetwork == Operate

SpecNetwork == InitNetwork /\ [][NextNetwork]_vars

\* The requests of the log that failed, and the waits.
FailedAt(what) == {i \in DOMAIN log : log[i].op = what /\ log[i].failed}

Waits == SelectSeq(log, LAMBDA e : e.op = "sleep")

\* C17: when the copy that stages a remote column group fails with a
\* connection error, the operation waits and asks again, the waits
\* doubling from 4 seconds on; it raises the connection error only after
\* MaxTrial waits, and a single failure does not make it fail.
C17_StagingRetried ==
    ret.op \in {"assemble", "iterate"} /\ FailedAt("fs.get") # {} =>
        /\ Waits # <<>>
        /\ \A i \in DOMAIN Waits : Waits[i].n = 2 ^ (i + 1)
        /\ ret.err = "ConnectionError" => Len(Waits) = MaxTrial
        /\ ret.a.net.times = 1 => ret.err = OK

\* C18: a listing that fails is the last request of the operation, which
\* raises; no listing is asked for again and nothing is waited for after
\* a failed listing; an empty listing of the path makes _collect raise
\* after that one listing.
C18_ListingNotRetried ==
    ret.op \in {"assemble", "iterate"} =>
        /\ \A i \in FailedAt("ls") : i = Len(log) /\ ret.err = "ConnectionError"
        /\ FailedAt("ls") # {} => Waits = <<>>
        /\ FailedAt("ls") = {} /\ ls(files, tmpdirs, ret.a.path) = <<>> =>
             ret.err = "ValueError" /\ Len(log) <= 1

(***************************************************************************)
(* Operations that overlap: a generator of iterate is consumed while other *)
(* operations are called, run and return, in one thread or in several.     *)
(***************************************************************************)

OverlapArgs ==
    [iterate |-> {[path |-> B, axis |-> x, cgroups |-> None, rgroups |-> None,
                   merge |-> "inner"] : x \in {0, 1}},
     assemble |-> {[path |-> p, cgroups |-> None, rgroups |-> None, merge |-> "inner"] :
                     p \in {B, R}},
     partitioned |-> {[path |-> B, cgroups |-> None, rgroups |-> None,
                       merge |-> "inner", dask |-> TRUE]}]

InitOverlap == InitProcess({TreeRemote, TreeLocal})

NextOverlap ==
    \/ EnterFunction(OverlapArgs, MaxIterCalls)
    \/ EnterSession(OverlapArgs, MaxIterCalls)
    \/ BodyAssemble
    \/ BodyPartitioned
    \/ BodyIterate
    \/ ExitFunction
    \/ ExitSession
    \/ GenNext
    \/ GenClose
    \/ ProcessExit

SpecOverlap == InitOverlap /\ [][NextOverlap]_vars

\* The staging directories of the operations other than the generator's:
\* that of the call in progress and those kept for the session.
StagingOfOthers ==
    (IF call.pc \in {"body", "exit"} THEN {call.tmpdir} ELSE {}) \cup atexit

\* C19: a step of a generator of iterate puts no file into a directory
\* that is the staging directory of another operation.
C19_StagingExclusive ==
    [][gen.st \in {"created", "suspended"} /\ gen' # gen /\ gen'.st # "closed" =>
         \A i \in DOMAIN files' :
            (\E d \in StagingOfOthers : Under(d, files'[i].path)) =>
               \E j \in DOMAIN files : files[j] = files'[i]
    ]_vars

(***************************************************************************)
(* The join mode: assemble and iterate(axis=0) with each value of merge    *)
(* and one, two or three column groups.                                    *)
(***************************************************************************)

JoinArgs ==
    [assemble |-> {[path |-> p, cgroups |-> None, rgroups |-> None, merge |-> m] :
                     p \in {R, Path(<<R, C0>>)}, m \in JoinModes \cup {"bogus"}},
     iterate |-> {[path |-> R, axis |-> 0, cgroups |-> c, rgroups |-> None, merge |-> m] :
                    c \in {None, Some(<<C0>>)}, m \in JoinModes \cup {"bogus"}}]

InitJoin == InitProcess({TreeLocal, TreeThree})

NextJoin ==
    \/ EnterFunction(JoinArgs, MaxCalls)
    \/ BodyAssemble
    \/ BodyIterate
    \/ ExitFunction
    \/ GenNext

SpecJoin == InitJoin /\ [][NextJoin]_vars

\* C20: with a join mode other than inner, left, right and outer, assemble
\* raises and a generator of iterate(axis=0) yields no item and raises at
\* its first step, whatever the number of column groups.
C20_JoinModeChecked ==
    /\ call.pc = "exit" /\ call.op = "assemble" /\ call.a.merge \notin JoinModes =>
          call.err # OK
    /\ gen.st \in {"suspended", "done", "raised"} /\ gen.a.merge \notin JoinModes =>
          gen.st = "raised" /\ yielded = <<>>

(***************************************************************************)
(* iterate with an axis that is none of -1, 0 and 1.                       *)
(***************************************************************************)

Axes == {0 - 1, 0, 1}

\* C21: a generator of iterate made with an axis other than -1, 0 and 1
\* raises ValueError at its first step, yields no item, and has by then
\* listed, staged and read nothing.
C21_AxisCheckedFirst ==
    gen.st \in {"suspended", "done", "raised"} /\ gen.a.axis \notin Axes =>
        /\ gen.st = "raised" /\ gen.err = "ValueError"
        /\ yielded = <<>>
        /\ gen.log = <<>>

(***************************************************************************)
(* _merge_all on its own: one to three tables of every small height that   *)
(* share the key column, with each join mode.                              *)
(***************************************************************************)

MaxFrames == 3
MaxHeight == 2

\* The g-th table: the keys 1..rows and a column of its own.
Frame(g, rows) ==
    [cols |-> <<"k", <<"a", "b", "c", "d">>[g]>>,
     rows |-> ListOf([i \in 1..rows |-> <<i, 10 * g + i>>])]

MergeArgs ==
    {[frames |-> ListOf([g \in 1..n |-> Frame(g, h[g])]), merge |-> m] :
       n \in 1..MaxFrames, h \in [1..MaxFrames -> 0..MaxHeight],
       m \in JoinModes \cup {"bogus"}}

InitMerge ==
    /\ files = <<>>
    /\ tmpdirs = {}
    /\ atexit = {}
    /\ alive = TRUE
    /\ made = 0
    /\ call \in {[pc |-> "body", op |-> "_merge_all", a |-> a] : a \in MergeArgs}
    /\ ret = NoReturn
    /\ gen = NoGen
    /\ yielded = <<>>
    /\ log = <<>>
    /\ gcscp = GCSFileSystem(TRUE, TRUE)

MergeAll ==
    /\ call.pc = "body" /\ call.op = "_merge_all"
    /\ ret' = [op |-> call.op, a |-> call.a,
               value |-> _merge_all(call.a.frames, call.a.merge)]
    /\ call' = Idle
    /\ UNCHANGED <<files, tmpdirs, atexit, alive, made, gen, yielded, log, gcscp>>

NextMerge == MergeAll

SpecMerge == InitMerge /\ [][NextMerge]_vars

RECURSIVE Joined(_, _, _)
\* The first g tables joined pairwise from the left.
Joined(frames, g, merge) ==
    IF g = 1 THEN frames[1]
    ELSE pd_merge(Joined(frames, g - 1, merge), frames[g], merge).df

\* C22: with a join mode of pandas, _merge_all makes every join, whether the
\* two operands of a join have the same number of rows or not, and warns of
\* exactly the joins whose operands differ in their number of rows, in
\* order; it fails only where the join itself fails.
C22_WarningOnly ==
    ret.op = "_merge_all" =>
        LET f == ret.a.frames
            n == Len(f)
            m == ret.a.merge
            differ(i) == Len(Joined(f, i, m).rows) # Len(f[i + 1].rows)
        IN  IF m \in JoinModes
            THEN /\ ret.value.err = OK
                 /\ ret.value.df = Joined(f, n, m)
                 /\ ret.value.warnings =
                       Concat([i \in 1..(n - 1) |->
                                 IF differ(i)
                                 THEN <<<<Len(Joined(f, i, m).rows), Len(f[i + 1].rows)>>>>
                                 ELSE <<>>])
            ELSE n = 1 \/ ret.value.err = "MergeError"

C22_Witness ==
    /\ ret.op = "_merge_all" /\ Len(ret.a.frames) = 3 /\ ret.a.merge = "outer"
    /\ ret.value.err = OK
    /\ ret.value.warnings = <<<<1, 2>>>>
    /\ Len(ret.value.df.rows) = 2 /\ ret.value.df.cols = <<"k", "a", "b", "c">>

(***************************************************************************)
(* divide twice into one directory, with offsets that keep the indices of  *)
(* the two calls apart or not.                                             *)
(***************************************************************************)

RedivideArgs ==
    {[df |-> T3, path |-> D, n_rgroup |-> n, rgroup_offset |-> o,
      cgroup_columns |-> m, extension |-> Pq, prefix |-> x, failing |-> 0] :
       n \in 1..MaxRgroup, o \in {0, 1, MaxRgroup}, m \in {None, Some(ByColumn)},
       x \in {None, Some(<<"x">>)}}

InitRedivide == InitProcess({<<>>})

\* Two calls of divide, one after the other.
NextRedivide ==
    \/ EnterFunction([divide |-> RedivideArgs], 2)
    \/ BodyDivide
    \/ ExitFunction

SpecRedivide == InitRedivide /\ [][NextRedivide]_vars

\* The name the claim gives the file of index k: part_, the index in at
\* least five digits, the extension; the prefix and _ before it if any.
PartName(k, extension, prefix) ==
    LET digits == Digits(k)
        zeros == [i \in 1..(5 - Len(digits)) |-> "0"]
        rn == <<"p", "a", "r", "t", "_">> \o zeros \o digits \o extension
    IN  IF IsNone(prefix) THEN rn ELSE Val(prefix) \o <<"_">> \o rn

\* The paths the claim has a call of divide write.
PartPaths(a) ==
    UNION {{join(IF IsNone(ItemsOf(a)[k].cname) THEN a.path
                 ELSE join(a.path, Val(ItemsOf(a)[k].cname)),
                 PartName(i + a.rgroup_offset, a.extension, a.prefix)) :
              i \in 0..(a.n_rgroup - 1)} : k \in DOMAIN ItemsOf(a)}

\* The files outside the staging directories.
Kept(fs) == {fs[x] : x \in {y \in DOMAIN fs : \A t \in TmpNames : ~Under(t, fs[y].path)}}

\* C23: a divide that returns has written n_rgroup files per column group
\* under the names part_<index + offset in five digits><extension> (after
\* the prefix), in path or in path/<column group>; the destination then
\* holds these and the files it held under other names, unchanged.  Two
\* divides of index ranges that do not meet leave 2 * n_rgroup files per
\* column group.
C23_NamedFilesOnly ==
    [][call.pc = "body" /\ call.op = "divide" /\ call'.pc = "exit" /\ call'.err = OK =>
         LET a == call.a
             before == Kept(files)
             after == Kept(files')
         IN  /\ Cardinality(PartPaths(a)) = a.n_rgroup * Len(ItemsOf(a))
             /\ {f.path : f \in after} = {f.path : f \in before} \cup PartPaths(a)
             /\ \A f \in before : f.path \notin PartPaths(a) => f \in after
             /\ \A k \in DOMAIN ItemsOf(a) :
                  /\ \A i \in 0..(a.n_rgroup - 1) :
                        ~IsNone(ShardOf(files', a, ItemsOf(a)[k], i))
                  /\ made = 2 /\ ret.op = "divide" /\ ret.err = OK
                     /\ ret.a.n_rgroup = a.n_rgroup /\ ret.a.prefix = a.prefix
                     /\ ret.a.cgroup_columns = a.cgroup_columns
                     /\ (\/ ret.a.rgroup_offset + a.n_rgroup <= a.rgroup_offset
                         \/ a.rgroup_offset + a.n_rgroup <= ret.a.rgroup_offset)
                     => Cardinality(StoredIn(files', a, ItemsOf(a)[k])) = 2 * a.n_rgroup
    ]_vars

C23_Witness ==
    /\ call.pc = "exit" /\ call.op = "divide" /\ call.err = OK /\ made = 2
    /\ ret.op = "divide" /\ ret.err = OK
    /\ call.a.n_rgroup = 2 /\ ret.a.n_rgroup = 2
    /\ call.a.rgroup_offset = 2 /\ ret.a.rgroup_offset = 0
    /\ call.a.prefix = None /\ ret.a.prefix = None
    /\ call.a.cgroup_columns = Some(ByColumn) /\ ret.a.cgroup_columns = Some(ByColumn)
    /\ Cardinality(Kept(files)) = 8

(***************************************************************************)
(* What a generator of iterate has done by the time it has yielded k items.*)
(***************************************************************************)

\* The files that belong to a unit of a generator: the file of the unit for
\* axis -1, the files of that name for axis 0, the group's files for axis 1.
FilesOfUnit(g, unit) ==
    IF g.a.axis = 0 - 1 THEN {unit[2]}
    ELSE IF g.a.axis = 0
    THEN {p \in UNION {Range(g.grouped[c].paths) : c \in DOMAIN g.grouped} :
            _rname(p) = unit}
    ELSE Range(Get(g.grouped, unit))

\* The paths the generator has read.
ReadBy(g) == {g.log[i].path : i \in {j \in DOMAIN g.log : g.log[j].op = "read_df"}}

\* C24: the call of iterate lists, copies and reads nothing, and so does
\* the generator until it is asked for its first item; once k items are
\* delivered, every file read belongs to one of the first k units (to one
\* of the first k + 1 when the step for the next item raised).
C24_NoWorkAhead ==
    /\ call.pc = "exit" /\ call.op = "iterate" => log = <<>>
    /\ gen.st \in {"made", "created"} => gen.log = <<>>
    /\ gen.st \in {"suspended", "done", "raised", "closed"} =>
          /\ gen.k = Len(yielded)
          /\ \A p \in ReadBy(gen) :
                \E j \in 1..(IF gen.st = "raised" THEN gen.k + 1 ELSE gen.k) :
                   j <= Len(gen.units) /\ p \in FilesOfUnit(gen, gen.units[j])

C24_Witness ==
    /\ gen.st = "suspended" /\ gen.k = 1 /\ Len(gen.units) = 3
    /\ gen.a.path = B /\ gen.a.axis = 0 - 1
    /\ Cardinality(ReadBy(gen)) = 1
    /\ \E i \in DOMAIN gen.log : gen.log[i].op = "fs.get"

(***************************************************************************)
(* The decorator on its own and around each storage operation of           *)
(* GCSNativeFileSystem, on storage whose requests fail from the at-th on,  *)
(* times times, with an exception of one type.                             *)
(***************************************************************************)

\* As many failures as any operation here can meet.
Forever == (MaxTrial + 1) * (MaxTrial + 1)

StorageOps == {"_list_blobs", "_blob", "_transfer", "_read", "_write"}

RetryArgs ==
    {[what |-> w, net |-> [at |-> n, times |-> t, err |-> e]] :
       w \in StorageOps \cup {"request"}, n \in 1..2,
       t \in (0..MaxFaults) \cup {Forever}, e \in Retried \cup {"NotFound"}}

InitRetry ==
    /\ files = <<>>
    /\ tmpdirs = {}
    /\ atexit = {}
    /\ alive = TRUE
    /\ made = 0
    /\ call \in {[pc |-> "body", op |-> "_retry_with_backoff", a |-> a] : a \in RetryArgs}
    /\ ret = NoReturn
    /\ gen = NoGen
    /\ yielded = <<>>
    /\ log = <<>>
    /\ gcscp = GCSFileSystem(TRUE, TRUE)

\* One call of a decorated function.
Retry ==
    /\ call.pc = "body" /\ call.op = "_retry_with_backoff"
    /\ With(_retry_with_backoff(0, [req |-> 1, events |-> <<>>], call.a.net, call.a.what),
            LAMBDA r :
         /\ log' = r.events
         /\ ret' = [op |-> call.op, a |-> call.a, err |-> r.err])
    /\ call' = Idle
    /\ UNCHANGED <<files, tmpdirs, atexit, alive, made, gen, yielded, gcscp>>

NextRetry == Retry

SpecRetry == InitRetry /\ [][NextRetry]_vars

\* The requests made, and the seconds slept in all.
Attempts == SelectSeq(log, LAMBDA e : e.op # "sleep")

RECURSIVE Slept(_)
Slept(i) == IF i = 0 THEN 0 ELSE Slept(i - 1) + Waits[i].n

\* C25: around a function that makes one request, the decorator calls it
\* at most 7 times; the k-th failure in a row with a connection error,
\* k = 1..6, is followed by a sleep of 2^(k+1) seconds and a further call;
\* the 7th is raised with no sleep after it; an exception of another type
\* is raised by the call it occurs in; a call that returns is the last.
C25_BoundedBackoff ==
    ret.op = "_retry_with_backoff" /\ ret.a.what = "request" =>
        LET net == ret.a.net
            \* the failures in a row that the calls meet from the first on
            f == IF net.at = 1 THEN net.times ELSE 0
            n == Len(Attempts)
        IN  /\ n <= 7 /\ Len(Waits) = n - 1
            /\ \A i \in DOMAIN log : (log[i].op = "sleep") = (i % 2 = 0)
            /\ \A k \in DOMAIN Waits : Waits[k].n = 2 ^ (k + 1)
            /\ \A k \in 1..(n - 1) : Attempts[k].failed
            /\ IF f = 0 THEN n = 1 /\ ret.err = OK
               ELSE IF net.err \notin Retried THEN n = 1 /\ ret.err = net.err
               ELSE IF f >= 7 THEN n = 7 /\ ret.err = net.err /\ Attempts[7].failed
               ELSE n = f + 1 /\ ret.err = OK

C25_Witness ==
    /\ ret.op = "_retry_with_backoff" /\ ret.a.what = "request"
    /\ ret.err = "ChunkedEncodingError"
    /\ Len(Attempts) = 7 /\ Slept(Len(Waits)) = 252
    /\ log[Len(log)].op = "request"

\* C26: when every request fails with a connection error, a decorated
\* storage operation raises after at most 7 requests and at most 252
\* seconds of sleep in all.
C26_BoundedInAll ==
    /\ ret.op = "_retry_with_backoff" /\ ret.a.what \in StorageOps
    /\ ret.a.net.at = 1 /\ ret.a.net.times = Forever /\ ret.a.net.err \in Retried
    => /\ ret.err = ret.a.net.err
       /\ Len(Attempts) <= 7
       /\ Slept(Len(Waits)) <= 252

(***************************************************************************)
(* GCSFileSystem.cp (blocks/filesystem/gcs_filesystem.py): calls of cp on  *)
(* one object, one after the other.                                        *)
(***************************************************************************)

CHUNK_SIZE == 1000
MaxCp == 3

\* sources[x : x + CHUNK_SIZE] for x in range(0, len(sources), CHUNK_SIZE)
chunks(sources) ==
    ListOf([c \in 1..((Len(sources) + CHUNK_SIZE - 1) \div CHUNK_SIZE) |->
              SubSeq(sources, (c - 1) * CHUNK_SIZE + 1, Min(c * CHUNK_SIZE, Len(sources)))])

\* self.GCS in x
OnGCS(x) == \E i \in 1..(Len(x) - 4) : SubSeq(x, i, i + 4) = <<"g", "s", ":", "/", "/">>

\* GCSFileSystem.cp: the object's copy command after the call and the
\* commands run, each the command words and the paths that follow them.
\* cmd is the object's list itself when a path is on GCS, a new list
\* otherwise; "-r" is appended to whichever it is.
cp(self_gcscp, sources, dest, recursive) ==
    LET shared == (\E i \in DOMAIN sources : OnGCS(sources[i])) \/ OnGCS(dest)
        cmd == (IF shared THEN self_gcscp ELSE <<"cp">>)
               \o (IF recursive THEN <<"-r">> ELSE <<>>)
    IN  [gcscp |-> IF shared /\ recursive THEN cmd ELSE self_gcscp,
         run |-> ListOf([c \in DOMAIN chunks(sources) |->
                           [cmd |-> cmd, paths |-> Append(chunks(sources)[c], dest)]])]

CpArgs ==
    {[sources |-> s, dest |-> d, recursive |-> r] :
       s \in {<<Path(<<B, C0, P0>>)>>, <<Path(<<R, C0, P0>>)>>,
              <<Path(<<B, C0>>), Path(<<B, C1>>)>>},
       d \in {StagingDir, Path(<<B, D>>)}, r \in BOOLEAN}

InitCp ==
    /\ files = <<>>
    /\ tmpdirs = {}
    /\ atexit = {}
    /\ alive = TRUE
    /\ made = 0
    /\ call = Idle
    /\ ret = NoReturn
    /\ gen = NoGen
    /\ yielded = <<>>
    /\ log = <<>>
    /\ gcscp \in {GCSFileSystem(p, q) : p, q \in BOOLEAN}

\* One call of cp on the object.
Cp ==
    /\ made < MaxCp
    /\ \E a \in CpArgs :
         With(cp(gcscp, a.sources, a.dest, a.recursive), LAMBDA r :
           /\ gcscp' = r.gcscp
           /\ log' = r.run
           /\ ret' = [op |-> "cp", a |-> a])
    /\ made' = made + 1
    /\ UNCHANGED <<files, tmpdirs, atexit, alive, call, gen, yielded>>

NextCp == Cp

SpecCp == InitCp /\ [][NextCp]_vars

\* C27: a call of cp leaves the object's copy command as it was, and the
\* commands it runs have -r exactly when the call is made with
\* recursive=True, and then once.
C27_CommandUnchanged ==
    [][made' = made + 1 /\ ret'.op = "cp" =>
         /\ gcscp' = gcscp
         /\ \A i \in DOMAIN log' :
               Len(SelectSeq(log'[i].cmd, LAMBDA w : w = "-r")) =
                  (IF ret'.a.recursive THEN 1 ELSE 0)
    ]_vars

(***************************************************************************)
(* FileSystem.copy on its own, between every two of the local filesystem   *)
(* and two remote ones.                                                    *)
(***************************************************************************)

K == <<"s", "3", ":", "/", "/", "k">>

TreeEverywhere ==
    SortEntries(<<File(<<R, C0, P0>>, KA0), File(<<R, C0, P1>>, KA1),
                  File(<<B, C0, P0>>, KA0), File(<<B, C0, P1>>, KA1),
                  File(<<K, C0, P0>>, KA0), File(<<K, C0, P1>>, KA1)>>)

CopyArgs ==
    {[sources |-> s, dest |-> d] :
       s \in UNION {{Str(Path(<<root, C0, P0>>)), List(<<Path(<<root, C0, P0>>)>>),
                     List(<<Path(<<root, C0, P0>>), Path(<<root, C0, P1>>)>>)} :
                      root \in {R, B, K}},
       d \in UNION {{Str(Path(<<root, D, XPq>>)), Str(Path(<<root, D>>) \o <<"/">>),
                     Str(Path(<<root, C1>>))} : root \in {R, B, K}}}

InitCopy ==
    /\ files = TreeEverywhere
    /\ tmpdirs = {}
    /\ atexit = {}
    /\ alive = TRUE
    /\ made = 0
    /\ call \in {[pc |-> "body", op |-> "copy", a |-> a] : a \in CopyArgs}
    /\ ret = NoReturn
    /\ gen = NoGen
    /\ yielded = <<>>
    /\ log = <<>>
    /\ gcscp = GCSFileSystem(TRUE, TRUE)

\* One call of FileSystem.copy.
Copy ==
    /\ call.pc = "body" /\ call.op = "copy"
    /\ With(copy(files, tmpdirs, call.a.sources, call.a.dest), LAMBDA r :
         /\ files' = r.fs
         /\ log' = r.log
         /\ ret' = [op |-> call.op, a |-> call.a, err |-> r.err, before |-> files])
    /\ call' = Idle
    /\ UNCHANGED <<tmpdirs, atexit, alive, made, gen, yielded, gcscp>>

NextCopy == Copy

SpecCopy == InitCopy /\ [][NextCopy]_vars

\* The transfers of the storage layer a call of copy has made.
Transfers == SelectSeq(log, LAMBDA e : e.op \in {"fs.copy", "fs.put", "fs.get"})

\* C28: a call of copy has either made one transfer and returned, or made
\* none, left the storage as it was and raised NotImplementedError, the
\* source and the destination being both remote.
C28_OneTransfer ==
    ret.op = "copy" =>
        LET ps == split_protocol(IF ret.a.sources.isstr THEN ret.a.sources.v
                                 ELSE ret.a.sources.v[1]).protocol
            pd == split_protocol(ret.a.dest.v).protocol
        IN  \/ ret.err = OK /\ Len(Transfers) = 1
            \/ /\ ret.err = "NotImplementedError" /\ ~IsNone(ps) /\ ~IsNone(pd)
               /\ Len(Transfers) = 0 /\ files = ret.before

(***************************************************************************)
(* The names divide gives the shards of one column group, for offsets      *)
(* that keep the indices within five digits and offsets that do not.       *)
(***************************************************************************)

NameArgs ==
    {[n_rgroup |-> n, rgroup_offset |-> o, extension |-> Pq, prefix |-> x] :
       n \in 1..MaxShards,
       o \in (0..9) \cup {10 ^ PadWidth - k : k \in 0..9},
       x \in {None, Some(<<"x">>)}}

InitNames ==
    /\ files = <<>>
    /\ tmpdirs = {}
    /\ atexit = {}
    /\ alive = TRUE
    /\ made = 0
    /\ call \in {[pc |-> "body", op |-> "rnames", a |-> a] : a \in NameArgs}
    /\ ret = NoReturn
    /\ gen = NoGen
    /\ yielded = <<>>
    /\ log = <<>>
    /\ gcscp = GCSFileSystem(TRUE, TRUE)

\* The list rnames of divide, and the list as assemble orders it.
Rnames ==
    /\ call.pc = "body" /\ call.op = "rnames"
    /\ With(ListOf([i \in 1..call.a.n_rgroup |->
                      rname_of(i - 1, call.a.rgroup_offset, call.a.extension,
                               call.a.prefix)]), LAMBDA rnames :
         ret' = [op |-> call.op, a |-> call.a, rnames |-> rnames,
                 read |-> Sorted(rnames)])
    /\ call' = Idle
    /\ UNCHANGED <<files, tmpdirs, atexit, alive, made, gen, yielded, log, gcscp>>

NextNames == Rnames

SpecNames == InitNames /\ [][NextNames]_vars

\* C29: the names of the shards, put in the order of the names, are in
\* the order of the indices of the shards.
C29_NamesSortAsIndices ==
    ret.op = "rnames" => ret.read = ret.rnames

(***************************************************************************)
(* divide with convert (blocks/core.py): the columns of the table the      *)
(* caller passed are assigned the result of pd.to_numeric.  A cell is      *)
(* [int |-> n], a number, or [str |-> s], a string.                        *)
(***************************************************************************)

Int_(n) == [int |-> n]
Text(s) == [str |-> s]

IsDigits(s) == s # <<>> /\ \A i \in DOMAIN s : \E d \in DOMAIN DigitChar : DigitChar[d] = s[i]

RECURSIVE Number(_)
\* The number a string of decimal digits stands for.
Number(s) ==
    IF s = <<>> THEN 0
    ELSE 10 * Number(SubSeq(s, 1, Len(s) - 1))
         + (CHOOSE d \in DOMAIN DigitChar : DigitChar[d] = s[Len(s)]) - 1

\* pd.to_numeric(column, errors="ignore"): the column with every cell as a
\* number when each cell is one or parses as one, otherwise the column
\* as it was given.
to_numeric(column) ==
    IF \A i \in DOMAIN column :
          "int" \in DOMAIN column[i] \/ IsDigits(column[i].str)
    THEN [i \in DOMAIN column |->
            IF "int" \in DOMAIN column[i] THEN column[i]
            ELSE Int_(Number(column[i].str))]
    ELSE column

\* for col in df.columns: df[col] = pd.to_numeric(df[col], errors="ignore")
converted(df) ==
    LET column(c) == [i \in DOMAIN df.rows |-> df.rows[i][c]]
    IN  [cols |-> df.cols,
         rows |-> [i \in DOMAIN df.rows |->
                     [c \in DOMAIN df.cols |-> to_numeric(column(c))[i]]]]

\* divide with its argument convert: the result of the body, and df, the
\* table object of the caller when the body has ended.
divide_convert(a, fs, live, tmpdir) ==
    LET df == IF a.convert THEN converted(a.df) ELSE a.df
    IN  [r |-> divide([a EXCEPT !.df = df], fs, live, tmpdir), df |-> df]

Cells == {Int_(1), Text(<<"2">>), Text(<<"1", "0">>), Text(<<"x">>)}

ConvertTables ==
    {[cols |-> <<"k", "a">>, rows |-> <<<<Int_(1), x>>, <<Int_(2), y>>>>] :
       x \in Cells, y \in Cells}

ConvertArgs ==
    {[df |-> t, path |-> D, n_rgroup |-> n, rgroup_offset |-> 0, cgroup_columns |-> m,
      extension |-> Pq, prefix |-> None, failing |-> f, convert |-> c] :
       t \in ConvertTables, n \in {1, 2},
       m \in {None, Some(<<[cname |-> Some(C0), columns |-> <<"k", "a">>]>>),
              Some(<<[cname |-> Some(C0), columns |-> <<"k", "z">>]>>)},
       f \in {0, 1}, c \in BOOLEAN}

InitConvert == InitProcess({<<>>})

\* The body of divide; call.a.df is the table object the caller holds.
BodyDivideConvert ==
    /\ call.pc = "body" /\ call.op = "divide"
    /\ With(divide_convert(call.a, files, tmpdirs, call.tmpdir), LAMBDA d :
         /\ files' = d.r.fs
         /\ log' = d.r.log
         /\ call' = [pc |-> "exit", op |-> call.op, a |-> [call.a EXCEPT !.df = d.df],
                     tmpdir |-> call.tmpdir, err |-> d.r.err, value |-> None])
    /\ UNCHANGED <<tmpdirs, atexit, alive, made, ret, gen, yielded, gcscp>>

\* One call of divide, into the empty directory.
NextConvert ==
    \/ EnterFunction([divide |-> ConvertArgs], 1)
    \/ BodyDivideConvert
    \/ ExitFunction

SpecConvert == InitConvert /\ [][NextConvert]_vars

\* C30: the table the caller passed to divide is, when the body of divide
\* has ended with a return or an exception, the table it was at the call.
C30_TableUnchanged ==
    [][(call.pc = "body" /\ call.op = "divide" /\ call'.pc = "exit")
         => call'.a.df = call.a.df]_vars

====
